---- MODULE Spec2Model ----
(***************************************************************************)
(* Model of the intersection allocation engine (intersection.py), the      *)
(* vehicle agent (vehicle.py) and the selection mechanisms                 *)
(* (mechanisms/fcfs.py, auction.py, negotiation.py).                       *)
(*                                                                         *)
(* Times and ids are integers; Python's None is the value None (-1), a     *)
(* position is <<x, y>> or NoPos.  Negotiation scores are integers in      *)
(* tenths of a point (the code rounds every score to one decimal).         *)
(***************************************************************************)
EXTENDS Integers, Sequences, FiniteSets, TLC

(***************************************************************************)
(* Bounds of the model                                                     *)
(***************************************************************************)
\* engine specification Spec (all policies)
MaxVehicles == 3
MaxStep == 12
SpawnWindow == 2
\* SpecFCFS: the FCFS engine with spawns up to a later tick
FcfsVehicles == 3
FcfsSteps == 14
FcfsWindow == 12
\* SpecAxis: the FCFS engine with traffic on the North-South axis only
AxisVehicles == 6
AxisSteps == 45
AxisWindow == 6
\* SpecFcfsSelect / SpecAuctionSelect: a mechanism called on its own, as the
\* tests do, with up to MaxCandidates candidates and times up to MaxTime
MaxCandidates == 3
MaxTime == 3
\* SpecEnglishRounds: an English auction run round by round over up to
\* RoundCandidates candidates
RoundCandidates == 2
\* SpecNegotiationCall: a negotiation over up to NegCandidates candidates that
\* arrived at ticks up to NegTime
NegCandidates == 3
NegTime == 1
\* SpecCap: the FCFS engine with one direction, enough vehicles and ticks to
\* fill its parking pool
CapVehicles == 16
CapSteps == 16
CapWindow == 16
\* SpecIds: an FCFS engine that spawns up to IdSpawns vehicles over its life
\* and runs up to IdSteps ticks between two resets
IdSpawns == 3
IdSteps == 3
\* SpecSeeded: two engines stepped up to SeedSteps times each
SeedSteps == 2
\* SpecQuery: the engines with one direction and enough vehicles to leave one
\* parked behind a full barrier queue, with queries between the ticks
QueryVehicles == 5
QuerySteps == 6
QueryWindow == 5
\* SpecStub: the FCFS engine with stub policies, up to StubVehicles vehicles
\* and StubSteps ticks
StubVehicles == 3
StubSteps == 3
\* SpecLive: FCFS with up to LiveVehicles vehicles spawned during the first
\* LiveWindow ticks and LiveSteps ticks in all, enough for every vehicle to
\* cross (13 ticks a vehicle when all use one axis)
LiveVehicles == 3
LiveWindow == 3
LiveSteps == 60

\* SpecChicken: up to MaxGames Chicken Games among ChickenPlayers players
ChickenPlayers == 2
MaxGames == 2
\* SpecPark: the Auction and Negotiation engines with one direction, enough
\* vehicles to fill its barrier queue and leave two of them parked
ParkVehicles == 6
ParkSteps == 15
ParkWindow == 6
\* values the random draws are taken from: randint(1, 10) of a vehicle's
\* urgency, randint(30, 100) of its fuel, random() * 10 of a negotiation
\* score (in hundredths)
UrgencyChoices == {3}
FuelChoices == {60}
RandomChoices == {0, 900}
\* urgency arguments of the vehicles built for a mechanism called on its own
CandidateUrgencies == {3, 8, 9, 10}

(***************************************************************************)
(* Program constants                                                       *)
(***************************************************************************)
None == -1
NoPos == << >>

GRID_SIZE == 15
INTERSECTION_POS == <<7, 7>>
MIN_URGENCY == 1
MAX_URGENCY == 10
URGENT_THRESHOLD == 9
ParkingCap == 9
BarrierCap == 3
increment == 10
RoundCap == 100

Directions == <<"N", "S", "E", "W">>
DirSet == {"N", "S", "E", "W"}
Axes == <<"NS", "EW">>

PARKING_START ==
  [d \in DirSet |-> CASE d = "N" -> <<6, 0>> [] d = "S" -> <<6, 12>>
                       [] d = "E" -> <<12, 6>> [] d = "W" -> <<0, 6>>]

BARRIER_POSITIONS ==
  [d \in DirSet |-> CASE d = "N" -> <<7, 3>> [] d = "S" -> <<7, 11>>
                       [] d = "E" -> <<11, 7>> [] d = "W" -> <<3, 7>>]

ENTRY_POINTS ==
  [d \in DirSet |-> CASE d = "N" -> <<7, 4>> [] d = "S" -> <<7, 10>>
                       [] d = "E" -> <<10, 7>> [] d = "W" -> <<4, 7>>]

MOVE_DIRECTION ==
  [d \in DirSet |-> CASE d = "N" -> <<0, 1>> [] d = "S" -> <<0, -1>>
                       [] d = "E" -> <<-1, 0>> [] d = "W" -> <<1, 0>>]

WAITING_POSITIONS ==
  [d \in DirSet |-> CASE d = "N" -> <<7, 6>> [] d = "S" -> <<7, 8>>
                       [] d = "E" -> <<8, 7>> [] d = "W" -> <<6, 7>>]

DIRECTION_AXIS ==
  [d \in DirSet |-> IF d \in {"N", "S"} THEN "NS" ELSE "EW"]

(***************************************************************************)
(* Python helpers                                                          *)
(***************************************************************************)
\* truth value of an Optional[int]: None and 0 are both false
Truthy(x) == x # None /\ x # 0

Range(seq) == {seq[i] : i \in 1..Len(seq)}

Max2(a, b) == IF a >= b THEN a ELSE b
Min2(a, b) == IF a <= b THEN a ELSE b
Abs(a) == IF a >= 0 THEN a ELSE 0 - a

\* lexicographic order on tuples of integers of equal length
RECURSIVE LexLess(_, _)
LexLess(a, b) ==
  IF Len(a) = 0 THEN FALSE
  ELSE IF Head(a) # Head(b) THEN Head(a) < Head(b)
  ELSE LexLess(Tail(a), Tail(b))

\* sorted(seq, key=...): stable ascending sort, keys[i] is the key of seq[i]
StableSort(seq, keys) ==
  LET n == Len(seq)
      rank(i) == 1 + Cardinality({j \in 1..n :
                        \/ LexLess(keys[j], keys[i])
                        \/ (keys[j] = keys[i] /\ j < i)})
  IN  [p \in 1..n |-> seq[CHOOSE i \in 1..n : rank(i) = p]]

\* list.remove(x) / deque.remove(x): drops the first occurrence
RemoveFirst(seq, x) ==
  LET i == CHOOSE k \in 1..Len(seq) :
             seq[k] = x /\ \A j \in 1..(k - 1) : seq[j] # x
  IN  SubSeq(seq, 1, i - 1) \o SubSeq(seq, i + 1, Len(seq))

(***************************************************************************)
(* Vehicle (vehicle.py)                                                    *)
(***************************************************************************)
\* Vehicle._init_urgency: the (urgency, vehicle_type) pair of a new vehicle;
\* forced is the is_urgent argument, urgency = None means the argument was
\* not given and rnd is the value of random.randint(MIN_URGENCY, MAX_URGENCY)
\* _init_urgency without the FCFS branch
InitUrgencyAnyPolicy(mech, urgency, forced, rnd) ==
  IF forced
  THEN [urgency |-> MAX_URGENCY, vehicle_type |-> "URGENT"]
  ELSE LET u == IF urgency # None
                THEN Max2(MIN_URGENCY, Min2(urgency, MAX_URGENCY))
                ELSE rnd
       IN  [urgency |-> u,
            vehicle_type |-> IF u >= URGENT_THRESHOLD
                             THEN "URGENT" ELSE "NORMAL"]

InitUrgency(mech, urgency, forced, rnd) ==
  IF mech \in {"AUCTION", "NEGOTIATION"}
  THEN IF forced
       THEN [urgency |-> MAX_URGENCY, vehicle_type |-> "URGENT"]
       ELSE LET u == IF urgency # None
                     THEN Max2(MIN_URGENCY, Min2(urgency, MAX_URGENCY))
                     ELSE rnd
            IN  [urgency |-> u,
                 vehicle_type |-> IF u >= URGENT_THRESHOLD
                                  THEN "URGENT" ELSE "NORMAL"]
  ELSE [urgency |-> 0, vehicle_type |-> "NORMAL"]

\* BDIComponent.get_negotiation_strategy on the beliefs _init_bdi has set: the
\* strategy kept in bdi.intentions['strategy']
get_negotiation_strategy(own_urgency, own_fuel) ==
  IF own_urgency >= 9 THEN "aggressive"
  ELSE IF own_fuel < 30 THEN "aggressive"
  ELSE IF own_urgency <= 3 THEN "cooperative"
  ELSE "defensive"

\* Vehicle.__init__; fuel is the value of random.randint(30, 100)
NewVehicle(id, direction, arrival_time, urgency, forced, mech, rnd, fuel) ==
  LET u == InitUrgency(mech, urgency, forced, rnd)
  IN  [id |-> id, direction |-> direction, axis |-> DIRECTION_AXIS[direction],
       mechanism |-> mech, pos |-> NoPos, state |-> "IN_PARKING",
       arrival_time |-> arrival_time, barrier_time |-> None,
       entry_time |-> None, exit_time |-> None,
       urgency |-> u.urgency, vehicle_type |-> u.vehicle_type,
       bid_amount |-> 0, fuel_level |-> fuel, distance_remaining |-> 10,
       bdi_strategy |-> get_negotiation_strategy(u.urgency, fuel)]

is_urgent(v) ==
  IF v.mechanism = "FCFS" THEN FALSE ELSE v.vehicle_type = "URGENT"

\* value returned by Vehicle.calculate_bid
calculate_bid(v) ==
  IF v.mechanism = "FCFS" THEN 0
  ELSE IF is_urgent(v) THEN 1000 + v.urgency
  ELSE v.urgency * 10

\* side effect of Vehicle.calculate_bid on the vehicles whose id is in ids:
\* the bid is stored in bid_amount
StoreBids(vs, ids) ==
  [i \in DOMAIN vs |->
     IF i \in ids THEN [vs[i] EXCEPT !.bid_amount = calculate_bid(vs[i])]
     ELSE vs[i]]

set_parking_position(v, pos) == [v EXCEPT !.pos = pos]

move_to_barrier(v, current_time) ==
  [v EXCEPT !.pos = BARRIER_POSITIONS[v.direction],
            !.state = "AT_BARRIER",
            !.barrier_time = current_time]

\* enter_corridor without the entry timestamp
enter_corridor_untimed(v, current_time) ==
  [v EXCEPT !.pos = ENTRY_POINTS[v.direction],
            !.state = "IN_CORRIDOR",
            !.distance_remaining = 6]

enter_corridor(v, current_time) ==
  [v EXCEPT !.pos = ENTRY_POINTS[v.direction],
            !.state = "IN_CORRIDOR",
            !.entry_time = current_time,
            !.distance_remaining = 6]

\* NoPos stands for the None returned when the next cell is off the grid
get_next_position(v) ==
  IF v.pos = NoPos THEN ENTRY_POINTS[v.direction]
  ELSE LET new_x == v.pos[1] + MOVE_DIRECTION[v.direction][1]
           new_y == v.pos[2] + MOVE_DIRECTION[v.direction][2]
       IN  IF ~(0 <= new_x /\ new_x < 15 /\ 0 <= new_y /\ new_y < 15)
           THEN NoPos
           ELSE <<new_x, new_y>>

move(v) ==
  IF v.state \notin {"IN_CORRIDOR", "IN_CONFLICT"} THEN v
  ELSE LET next_pos == get_next_position(v)
       IN  IF next_pos = NoPos
           THEN [v EXCEPT !.pos = NoPos, !.state = "EXITED"]
           ELSE [v EXCEPT !.pos = next_pos,
                          !.distance_remaining = Max2(0, v.distance_remaining - 1),
                          !.fuel_level = Max2(0, v.fuel_level - 1)]

has_exited(v) == v.state = "EXITED"
(***************************************************************************)
(* Mechanisms (mechanisms/base.py, fcfs.py, auction.py, negotiation.py)    *)
(*                                                                         *)
(* A mechanism object is the record                                        *)
(*   [kind, auction_type, stats, last_auction, last_negotiation]           *)
(* with None for the attributes its class does not have.  A selection      *)
(* returns [result, mechanism, vehicles]: the SelectionResult (some =      *)
(* FALSE for Python's None), the mechanism after the call and the vehicles *)
(* after the call (calculate_bid stores the bid in the vehicle).           *)
(* avg_price and avg_rounds are quotients of two stored counters and the   *)
(* history lists grow with auctions_held / negotiations_held; they are not *)
(* stored again.                                                           *)
(***************************************************************************)
NoResult ==
  [some |-> FALSE, winner |-> None, method |-> "none", winning_bid |-> 0,
   price_paid |-> 0, total_rounds |-> 0]

SelectionResult(winner, method, winning_bid, price_paid, total_rounds) ==
  [some |-> TRUE, winner |-> winner, method |-> method,
   winning_bid |-> winning_bid, price_paid |-> price_paid,
   total_rounds |-> total_rounds]

BaseStats == [selections |-> 0, conflict_selections |-> 0]

AuctionStats ==
  [selections |-> 0, conflict_selections |-> 0, auctions_held |-> 0,
   total_revenue |-> 0, total_rounds |-> 0, english_auctions |-> 0,
   vickrey_auctions |-> 0]

NegotiationStats ==
  [selections |-> 0, conflict_selections |-> 0, negotiations_held |-> 0,
   total_rounds |-> 0, total_messages |-> 0, yields |-> 0, insists |-> 0,
   close_negotiations |-> 0]

FCFSMechanism ==
  [kind |-> "FCFS", auction_type |-> "none", stats |-> BaseStats,
   last_auction |-> None, last_negotiation |-> None]

AuctionMechanism(auction_type) ==
  [kind |-> "AUCTION", auction_type |-> auction_type, stats |-> AuctionStats,
   last_auction |-> None, last_negotiation |-> None]

NegotiationMechanism ==
  [kind |-> "NEGOTIATION", auction_type |-> "none",
   stats |-> NegotiationStats, last_auction |-> None,
   last_negotiation |-> None]

\* create_mechanism for the members of the Mechanism enum
create_mechanism(mechanism_type, auction_type) ==
  CASE mechanism_type = "FCFS" -> FCFSMechanism
    [] mechanism_type = "AUCTION" -> AuctionMechanism(auction_type)
    [] mechanism_type = "NEGOTIATION" -> NegotiationMechanism

\* ---------------------------------------------------------------- FCFS ---
\* sort key of FCFSMechanism.select: (barrier_time or arrival_time, arrival_time)
FCFSKey(v) ==
  <<IF Truthy(v.barrier_time) THEN v.barrier_time ELSE v.arrival_time,
    v.arrival_time>>

\* the selection that takes the last element of the sort by FCFSKey
FCFSWinnerLatest(vs, candidates) ==
  StableSort(candidates,
             [i \in 1..Len(candidates) |-> FCFSKey(vs[candidates[i]])])[Len(candidates)]

\* FCFSMechanism.select: first element of the stable sort by FCFSKey
FCFSWinner(vs, candidates) ==
  StableSort(candidates,
             [i \in 1..Len(candidates) |-> FCFSKey(vs[candidates[i]])])[1]

FCFSSelect(m, vs, candidates) ==
  IF Len(candidates) = 0
  THEN [result |-> NoResult, mechanism |-> m, vehicles |-> vs]
  ELSE [result |-> SelectionResult(FCFSWinner(vs, candidates), "fcfs", 0, 0, 0),
        mechanism |-> [m EXCEPT !.stats.selections = @ + 1],
        vehicles |-> vs]

\* sort key of FCFSMechanism.select_at_conflict: entry_time or 0
FCFSConflictKey(v) == <<IF Truthy(v.entry_time) THEN v.entry_time ELSE 0>>

FCFSConflictWinner(vs, waiting) ==
  StableSort(waiting,
             [i \in 1..Len(waiting) |-> FCFSConflictKey(vs[waiting[i]])])[1]

FCFSSelectAtConflict(m, vs, waiting) ==
  IF Len(waiting) = 0
  THEN [result |-> NoResult, mechanism |-> m, vehicles |-> vs]
  ELSE IF Len(waiting) = 1
  THEN [result |-> SelectionResult(waiting[1], "single_vehicle", 0, 0, 0),
        mechanism |-> m, vehicles |-> vs]
  ELSE [result |-> SelectionResult(FCFSConflictWinner(vs, waiting),
                                   "fcfs_conflict", 0, 0, 0),
        mechanism |-> [m EXCEPT !.stats.conflict_selections = @ + 1],
        vehicles |-> vs]

\* ------------------------------------------------------------- Auction ---
\* all_bids = {v.id: v.calculate_bid() for v in candidates}
AllBids(vs, candidates) ==
  [vid \in Range(candidates) |-> calculate_bid(vs[vid])]

\* max(all_bids, key=all_bids.get): the first key, in insertion order, whose
\* bid is maximal
MaxBidder(all_bids, candidates) ==
  LET i == CHOOSE k \in 1..Len(candidates) :
             /\ \A j \in 1..Len(candidates) :
                  all_bids[candidates[j]] <= all_bids[candidates[k]]
             /\ \A j \in 1..(k - 1) :
                  all_bids[candidates[j]] < all_bids[candidates[k]]
  IN  candidates[i]

\* active_bidders after round r of _run_english_auction: the price of round r
\* is r * increment and a bidder eliminated in a round stays eliminated
ActiveAfter(all_bids, candidates, r) ==
  SelectSeq(candidates, LAMBDA vid : all_bids[vid] >= r * increment)

\* the while loop of _run_english_auction: it runs until the first round
\* that leaves at most one active bidder, or until round RoundCap
EnglishLoop(all_bids, candidates) ==
  IF Len(candidates) <= 1
  THEN [active_bidders |-> candidates, current_price |-> 0, round_num |-> 0]
  ELSE LET last == CHOOSE r \in 1..RoundCap :
                     /\ Len(ActiveAfter(all_bids, candidates, r)) <= 1
                        \/ r >= RoundCap
                     /\ \A q \in 1..(r - 1) :
                          Len(ActiveAfter(all_bids, candidates, q)) > 1
       IN  [active_bidders |-> ActiveAfter(all_bids, candidates, last),
            current_price |-> last * increment, round_num |-> last]

\* winner_id of _run_english_auction after the loop
EnglishWinner(all_bids, candidates, active_bidders) ==
  IF Len(active_bidders) > 0 THEN active_bidders[1]
  ELSE MaxBidder(all_bids, candidates)

run_english_auction(vs, candidates) ==
  LET all_bids == AllBids(vs, candidates)
      end == EnglishLoop(all_bids, candidates)
      winner_id == EnglishWinner(all_bids, candidates, end.active_bidders)
  IN  [auction_type |-> "english", winner_id |-> winner_id,
       winning_bid |-> all_bids[winner_id],
       price_paid |-> end.current_price,
       total_rounds |-> end.round_num, all_bids |-> all_bids]

\* the bids sorted without reverse=True
SortedBidsAscending(all_bids, candidates) ==
  StableSort(candidates,
             [i \in 1..Len(candidates) |-> <<all_bids[candidates[i]]>>])

\* sorted(all_bids.items(), key=lambda x: x[1], reverse=True): the ids in
\* descending bid order, ties in insertion order
SortedBids(all_bids, candidates) ==
  StableSort(candidates,
             [i \in 1..Len(candidates) |-> <<0 - all_bids[candidates[i]]>>])

\* a Vickrey price taken from the wrong end of the sorted bids
VickreyPriceLowest(all_bids, sorted_bids) ==
  IF Len(sorted_bids) > 1 THEN all_bids[sorted_bids[Len(sorted_bids)]] ELSE 0

\* a first-price rule: the winner pays its own bid
VickreyPriceOwnBid(all_bids, sorted_bids) ==
  IF Len(sorted_bids) > 1 THEN all_bids[sorted_bids[1]] ELSE 0

\* price_paid of _run_vickrey_auction
VickreyPrice(all_bids, sorted_bids) ==
  IF Len(sorted_bids) > 1 THEN all_bids[sorted_bids[2]] ELSE 0

run_vickrey_auction(vs, candidates) ==
  LET all_bids == AllBids(vs, candidates)
      sorted_bids == SortedBids(all_bids, candidates)
  IN  [auction_type |-> "vickrey", winner_id |-> sorted_bids[1],
       winning_bid |-> all_bids[sorted_bids[1]],
       price_paid |-> VickreyPrice(all_bids, sorted_bids),
       total_rounds |-> 1, all_bids |-> all_bids]

\* AuctionMechanism._update_stats
AuctionUpdateStats(stats, result) ==
  [stats EXCEPT
     !.auctions_held = @ + 1,
     !.total_revenue = @ + result.price_paid,
     !.total_rounds = @ + result.total_rounds,
     !.english_auctions = IF result.auction_type = "english" THEN @ + 1 ELSE @,
     !.vickrey_auctions = IF result.auction_type = "english" THEN @ ELSE @ + 1]

\* the end of AuctionMechanism.select once the auction has produced result
AuctionOutcome(m, vs, candidates, result) ==
  [result |-> SelectionResult(result.winner_id,
                              IF result.auction_type = "english"
                              THEN "english_auction" ELSE "vickrey_auction",
                              result.winning_bid, result.price_paid,
                              result.total_rounds),
   mechanism |-> [m EXCEPT
                    !.stats = AuctionUpdateStats(m.stats, result),
                    !.last_auction = result],
   vehicles |-> StoreBids(vs, Range(candidates))]

AuctionSelect(m, vs, candidates) ==
  IF Len(candidates) = 0
  THEN [result |-> NoResult, mechanism |-> m, vehicles |-> vs]
  ELSE IF Len(candidates) = 1
  THEN [result |-> SelectionResult(candidates[1], "single_candidate",
                                   calculate_bid(vs[candidates[1]]), 0, 0),
        mechanism |-> m,
        vehicles |-> StoreBids(vs, {candidates[1]})]
  ELSE AuctionOutcome(m, vs, candidates,
                      IF m.auction_type = "english"
                      THEN run_english_auction(vs, candidates)
                      ELSE run_vickrey_auction(vs, candidates))

AuctionSelectAtConflict(m, vs, waiting) ==
  IF Len(waiting) = 0
  THEN [result |-> NoResult, mechanism |-> m, vehicles |-> vs]
  ELSE IF Len(waiting) = 1
  THEN [result |-> SelectionResult(waiting[1], "single_vehicle", 0, 0, 0),
        mechanism |-> m, vehicles |-> vs]
  ELSE AuctionSelect(m, vs, waiting)
\* --------------------------------------------------------- Negotiation ---
\* round(x, 1) for x given in hundredths: the nearest tenth, halves to even
RoundTenths(x) ==
  LET q == x \div 10
      r == x % 10
  IN  IF r < 5 THEN q
      ELSE IF r > 5 THEN q + 1
      ELSE IF q % 2 = 0 THEN q ELSE q + 1

\* NegotiationMechanism._calculate_priority_score, in tenths; rnd is
\* random.random() * 10 in hundredths (0 .. 999)
calculate_priority_score(v, current_step, rnd) ==
  LET urgency_score == 400 * v.urgency
      wait_time == current_step - v.arrival_time
      wait_score == Min2(70 * wait_time, 3500)
      fuel_score == 1500 - 15 * v.fuel_level
  IN  RoundTenths(urgency_score + wait_score + fuel_score + rnd)

\* the closeness test with diff_percent <= 10
ScoresCloseInclusive(score1, score2) ==
  10 * Abs(score1 - score2) <= Max2(Max2(score1, score2), 10)

\* diff_percent < 10 with diff_percent = |s1 - s2| / max(s1, s2, 1) * 100
ScoresClose(score1, score2) ==
  10 * Abs(score1 - score2) < Max2(Max2(score1, score2), 10)

\* NegotiationMechanism._run_negotiation; rnd1, rnd2 are the two random draws
run_negotiation(v1, v2, current_step, rnd1, rnd2) ==
  LET score1 == calculate_priority_score(v1, current_step, rnd1)
      score2 == calculate_priority_score(v2, current_step, rnd2)
      close == ScoresClose(score1, score2)
      final1 == IF close THEN score1 + 3 * (current_step - v1.arrival_time)
                ELSE score1
      final2 == IF close THEN score2 + 3 * (current_step - v2.arrival_time)
                ELSE score2
      first == final1 >= final2
  IN  [winner_id |-> IF first THEN v1.id ELSE v2.id,
       loser_id |-> IF first THEN v2.id ELSE v1.id,
       winner_score |-> IF first THEN final1 ELSE final2,
       loser_score |-> IF first THEN final2 ELSE final1,
       score1 |-> score1, score2 |-> score2, close |-> close,
       propose |-> <<[sender_id |-> v1.id, priority_score |-> score1],
                     [sender_id |-> v2.id, priority_score |-> score2]>>,
       yield_sender |-> IF first THEN v2.id ELSE v1.id,
       accept_sender |-> IF first THEN v1.id ELSE v2.id,
       yields |-> 1,
       total_rounds |-> IF close THEN 4 ELSE 3,
       total_messages |-> IF close THEN 8 ELSE 6]

\* the statistics written by _run_negotiation and _update_stats
NegotiationUpdateStats(stats, result) ==
  [stats EXCEPT
     !.close_negotiations = IF result.close THEN @ + 1 ELSE @,
     !.yields = @ + result.yields,
     !.negotiations_held = @ + 1,
     !.total_rounds = @ + result.total_rounds,
     !.total_messages = @ + result.total_messages]

\* the tail shared by select and select_at_conflict once v1, v2 are chosen
NegotiationOutcome(m, vs, result) ==
  [result |-> SelectionResult(result.winner_id, "Marginal Utility",
                              0, 0, result.total_rounds),
   mechanism |-> [m EXCEPT
                    !.stats = NegotiationUpdateStats(m.stats, result),
                    !.last_negotiation = result],
   vehicles |-> vs]

Negotiate(m, vs, v1, v2, current_step, rnd1, rnd2) ==
  NegotiationOutcome(m, vs,
                     run_negotiation(vs[v1], vs[v2], current_step, rnd1, rnd2))

\* select negotiating between the first two candidates as listed
NegotiationSelectAsListed(m, vs, candidates, current_step, rnd1, rnd2) ==
  IF Len(candidates) = 0
  THEN [result |-> NoResult, mechanism |-> m, vehicles |-> vs]
  ELSE IF Len(candidates) = 1
  THEN [result |-> SelectionResult(candidates[1], "single_candidate", 0, 0, 0),
        mechanism |-> m, vehicles |-> vs]
  ELSE Negotiate(m, StoreBids(vs, Range(candidates)),
                 candidates[1], candidates[2], current_step, rnd1, rnd2)

NegotiationSelect(m, vs, candidates, current_step, rnd1, rnd2) ==
  IF Len(candidates) = 0
  THEN [result |-> NoResult, mechanism |-> m, vehicles |-> vs]
  ELSE IF Len(candidates) = 1
  THEN [result |-> SelectionResult(candidates[1], "single_candidate", 0, 0, 0),
        mechanism |-> m, vehicles |-> vs]
  ELSE LET sorted_candidates ==
             SortedBids(AllBids(vs, candidates), candidates)
       IN  Negotiate(m, StoreBids(vs, Range(candidates)),
                     sorted_candidates[1], sorted_candidates[2],
                     current_step, rnd1, rnd2)

NegotiationSelectAtConflict(m, vs, waiting, current_step, rnd1, rnd2) ==
  IF Len(waiting) = 0
  THEN [result |-> NoResult, mechanism |-> m, vehicles |-> vs]
  ELSE IF Len(waiting) = 1
  THEN [result |-> SelectionResult(waiting[1], "single_vehicle", 0, 0, 0),
        mechanism |-> m, vehicles |-> vs]
  ELSE Negotiate(m, vs, waiting[1], waiting[2], current_step, rnd1, rnd2)

\* ------------------------------------------------- dynamic dispatch ------
\* self.mechanism.select(candidates, axis, context)
select(m, vs, candidates, current_step, rnd1, rnd2) ==
  CASE m.kind = "FCFS" -> FCFSSelect(m, vs, candidates)
    [] m.kind = "AUCTION" -> AuctionSelect(m, vs, candidates)
    [] m.kind = "NEGOTIATION" ->
         NegotiationSelect(m, vs, candidates, current_step, rnd1, rnd2)

\* self.mechanism.select_at_conflict(waiting, context)
select_at_conflict(m, vs, waiting, current_step, rnd1, rnd2) ==
  CASE m.kind = "FCFS" -> FCFSSelectAtConflict(m, vs, waiting)
    [] m.kind = "AUCTION" -> AuctionSelectAtConflict(m, vs, waiting)
    [] m.kind = "NEGOTIATION" ->
         NegotiationSelectAtConflict(m, vs, waiting, current_step, rnd1, rnd2)
(***************************************************************************)
(* Engine (intersection.py, class SimpleIntersection)                      *)
(*                                                                         *)
(* The engine object is the record of the variables below; every method is *)
(* an operator from the engine before the call to the engine after it.     *)
(* vehicles is the store of Vehicle objects by id; the collections hold    *)
(* ids.  corridor_vehicles is the key order of the dict.  last_move keeps  *)
(* what the last step() decided (the winners admitted per axis, the local  *)
(* variables waiting / conflict_winner of move_corridor_vehicles, the lock *)
(* and the positions at the start of the movement phase).                  *)
(***************************************************************************)
VARIABLES mechanism_type, mechanism, step_count, vehicle_counter, vehicles,
          parking_zones, barrier_queues, corridor_reserved, corridor_vehicles,
          conflict_zone_vehicle, exited_vehicles, stats, last_move, call

vars == <<mechanism_type, mechanism, step_count, vehicle_counter, vehicles,
          parking_zones, barrier_queues, corridor_reserved, corridor_vehicles,
          conflict_zone_vehicle, exited_vehicles, stats, last_move, call>>

EngineStats ==
  [total_spawned |-> 0, total_crossed |-> 0, urgent_crossed |-> 0,
   total_wait_time |-> 0, collisions_avoided |-> 0]

NoMove ==
  [admitted |-> [a \in {"NS", "EW"} |-> None], waiting |-> << >>,
   zone_before |-> None, conflict_winner |-> None,
   pos_before |-> << >>, negotiated |-> {}]

\* SimpleIntersection.__init__
NewEngine(mechanism_kind, auction_type) ==
  [mechanism_type |-> mechanism_kind,
   mechanism |-> create_mechanism(mechanism_kind, auction_type),
   step_count |-> 0, vehicle_counter |-> 0, vehicles |-> << >>,
   parking_zones |-> [d \in DirSet |-> << >>],
   barrier_queues |-> [d \in DirSet |-> << >>],
   corridor_reserved |-> [a \in {"NS", "EW"} |-> None],
   corridor_vehicles |-> << >>, conflict_zone_vehicle |-> None,
   exited_vehicles |-> << >>, stats |-> EngineStats, last_move |-> NoMove]

\* the engine object in the current state
Engine ==
  [mechanism_type |-> mechanism_type, mechanism |-> mechanism,
   step_count |-> step_count, vehicle_counter |-> vehicle_counter,
   vehicles |-> vehicles, parking_zones |-> parking_zones,
   barrier_queues |-> barrier_queues,
   corridor_reserved |-> corridor_reserved,
   corridor_vehicles |-> corridor_vehicles,
   conflict_zone_vehicle |-> conflict_zone_vehicle,
   exited_vehicles |-> exited_vehicles, stats |-> stats,
   last_move |-> last_move]

\* the engine object e becomes the next state
Becomes(e) ==
  /\ mechanism_type' = e.mechanism_type
  /\ mechanism' = e.mechanism
  /\ step_count' = e.step_count
  /\ vehicle_counter' = e.vehicle_counter
  /\ vehicles' = e.vehicles
  /\ parking_zones' = e.parking_zones
  /\ barrier_queues' = e.barrier_queues
  /\ corridor_reserved' = e.corridor_reserved
  /\ corridor_vehicles' = e.corridor_vehicles
  /\ conflict_zone_vehicle' = e.conflict_zone_vehicle
  /\ exited_vehicles' = e.exited_vehicles
  /\ stats' = e.stats
  /\ last_move' = e.last_move

\* vs[id] := v, also for an id not yet in the store
Put(vs, id, v) ==
  [i \in (DOMAIN vs) \cup {id} |-> IF i = id THEN v ELSE vs[i]]

\* ------------------------------------------------------------ spawning ---
\* parking cell of the idx-th vehicle of a direction
ParkingCell(direction, idx) ==
  IF direction \in {"N", "S"}
  THEN <<PARKING_START[direction][1] + (idx % 3),
         PARKING_START[direction][2] + (idx \div 3)>>
  ELSE <<PARKING_START[direction][1] + (idx \div 3),
         PARKING_START[direction][2] + (idx % 3)>>

\* spawn_vehicle; a = [forced, rnd, fuel] are the random draws of the call:
\* random.random() < urgent_probability, randint(1, 10), randint(30, 100)
spawn_vehicle(e, direction, a) ==
  LET id == e.vehicle_counter + 1
      forced == e.mechanism_type # "FCFS" /\ a.forced
      vehicle == set_parking_position(
                   NewVehicle(id, direction, e.step_count, None, forced,
                              e.mechanism_type, a.rnd, a.fuel),
                   ParkingCell(direction, Len(e.parking_zones[direction])))
  IN  [e EXCEPT !.vehicle_counter = id,
                !.vehicles = Put(e.vehicles, id, vehicle),
                !.parking_zones[direction] = Append(@, id),
                !.stats.total_spawned = @ + 1]

\* try_spawn_vehicles from the i-th direction on; draws is the set of
\* directions whose random.random() < spawn_rate came out true
RECURSIVE try_spawn_vehicles(_, _, _, _)
try_spawn_vehicles(e, i, draws, attrs) ==
  IF i > Len(Directions) THEN e
  ELSE LET direction == Directions[i]
       IN  IF direction \in draws
              /\ Len(e.parking_zones[direction]) < ParkingCap
           THEN try_spawn_vehicles(spawn_vehicle(e, direction, attrs[direction]),
                                   i + 1, draws, attrs)
           ELSE try_spawn_vehicles(e, i + 1, draws, attrs)

\* -------------------------------------------------- parking to barrier ---
\* the parking pool sorted by arrival time under every policy
SortParkingByArrival(e, parking) ==
  StableSort(parking, [i \in 1..Len(parking) |->
                         <<e.vehicles[parking[i]].arrival_time>>])

\* parking.sort(...) of move_parking_to_barrier
SortParking(e, parking) ==
  IF e.mechanism_type = "FCFS"
  THEN StableSort(parking, [i \in 1..Len(parking) |->
                              <<e.vehicles[parking[i]].arrival_time>>])
  ELSE StableSort(parking, [i \in 1..Len(parking) |->
                              <<0 - calculate_bid(e.vehicles[parking[i]])>>])

\* the iteration without the test of the barrier queue's length
AdmitToBarrierUncapped(e, direction) ==
  LET parking == e.parking_zones[direction]
  IN  IF Len(parking) = 0
      THEN e
      ELSE LET sorted == SortParking(e, parking)
               vs == IF e.mechanism_type = "FCFS" THEN e.vehicles
                     ELSE StoreBids(e.vehicles, Range(parking))
               vid == sorted[1]
           IN  [e EXCEPT
                  !.vehicles = [vs EXCEPT
                                  ![vid] = move_to_barrier(@, e.step_count)],
                  !.parking_zones[direction] = Tail(sorted),
                  !.barrier_queues[direction] = Append(@, vid)]

\* one iteration of the loop of move_parking_to_barrier
AdmitToBarrier(e, direction) ==
  LET parking == e.parking_zones[direction]
  IN  IF Len(parking) = 0 \/ Len(e.barrier_queues[direction]) >= BarrierCap
      THEN e
      ELSE LET sorted == SortParking(e, parking)
               vs == IF e.mechanism_type = "FCFS" THEN e.vehicles
                     ELSE StoreBids(e.vehicles, Range(parking))
               vid == sorted[1]
           IN  [e EXCEPT
                  !.vehicles = [vs EXCEPT
                                  ![vid] = move_to_barrier(@, e.step_count)],
                  !.parking_zones[direction] = Tail(sorted),
                  !.barrier_queues[direction] = Append(@, vid)]

RECURSIVE move_parking_to_barrier(_, _)
move_parking_to_barrier(e, i) ==
  IF i > Len(Directions) THEN e
  ELSE move_parking_to_barrier(AdmitToBarrier(e, Directions[i]), i + 1)

\* ------------------------------------------------- barrier to corridor ---
AxisDirections(axis) == IF axis = "NS" THEN <<"N", "S">> ELSE <<"E", "W">>

BarrierCandidates(e, axis) ==
  e.barrier_queues[AxisDirections(axis)[1]]
    \o e.barrier_queues[AxisDirections(axis)[2]]

\* the winner's branch of process_barrier without the removal of the winner
\* from its barrier queue
AdmitToCorridorKeepsQueued(e, axis, winner) ==
  LET w == e.vehicles[winner]
  IN  [e EXCEPT
         !.corridor_reserved[axis] = w.id,
         !.vehicles[winner] = enter_corridor(@, e.step_count),
         !.corridor_vehicles = IF winner \in Range(@) THEN @
                               ELSE Append(@, winner),
         !.stats.total_wait_time = @ + (e.step_count - w.arrival_time),
         !.last_move.admitted[axis] = winner]

\* the branch of process_barrier taken when the selection has a winner
AdmitToCorridor(e, axis, winner) ==
  LET w == e.vehicles[winner]
  IN  [e EXCEPT
         !.barrier_queues[w.direction] = RemoveFirst(@, winner),
         !.corridor_reserved[axis] = w.id,
         !.vehicles[winner] = enter_corridor(@, e.step_count),
         !.corridor_vehicles = IF winner \in Range(@) THEN @
                               ELSE Append(@, winner),
         !.stats.total_wait_time = @ + (e.step_count - w.arrival_time),
         !.last_move.admitted[axis] = winner]

\* process_barrier(axis); rnd1, rnd2 are the random draws of a negotiation
\* the engine once mechanism.select has run (it may have changed the
\* mechanism's statistics and the candidates' bid_amount)
Selected(e, sel, where) ==
  [e EXCEPT
     !.mechanism = sel.mechanism,
     !.vehicles = sel.vehicles,
     !.last_move.negotiated =
        IF sel.result.method = "Marginal Utility" THEN @ \cup {where} ELSE @]

\* "if result and result.winner:" and what follows
AfterSelect(e, axis, sel) ==
  IF sel.result.some /\ sel.result.winner # None
  THEN AdmitToCorridor(Selected(e, sel, axis), axis, sel.result.winner)
  ELSE Selected(e, sel, axis)

\* process_barrier from "if not candidates" on
SelectAtBarrier(e, axis, candidates, rnd1, rnd2) ==
  IF Len(candidates) = 0 THEN e
  ELSE AfterSelect(e, axis,
                   select(e.mechanism, e.vehicles, candidates, e.step_count,
                          rnd1, rnd2))

process_barrier(e, axis, rnd1, rnd2) ==
  IF e.corridor_reserved[axis] # None THEN e
  ELSE SelectAtBarrier(e, axis, BarrierCandidates(e, axis), rnd1, rnd2)
\* ------------------------------------------- movement and conflict cell ---
\* _move_vehicle_safely that keeps the axis lock of a vehicle that exits
move_vehicle_keeps_lock(m, vid) ==
  LET e == m.e
      v == move(e.vehicles[vid])
  IN  IF has_exited(v)
      THEN [e |-> [e EXCEPT
                     !.vehicles[vid] = [v EXCEPT !.exit_time = e.step_count],
                     !.conflict_zone_vehicle = IF @ = v.id THEN None ELSE @,
                     !.exited_vehicles = Append(@, vid),
                     !.stats.total_crossed = @ + 1,
                     !.stats.urgent_crossed = IF is_urgent(v) THEN @ + 1 ELSE @],
            exited_ids |-> Append(m.exited_ids, vid)]
      ELSE [e |-> [e EXCEPT !.vehicles[vid] = v],
            exited_ids |-> m.exited_ids]

\* _move_vehicle_safely; m = [e, exited_ids] is the engine together with the
\* local list exited_ids of move_corridor_vehicles
move_vehicle_safely(m, vid) ==
  LET e == m.e
      v == move(e.vehicles[vid])
  IN  IF has_exited(v)
      THEN [e |-> [e EXCEPT
                     !.vehicles[vid] = [v EXCEPT !.exit_time = e.step_count],
                     !.corridor_reserved[v.axis] = None,
                     !.conflict_zone_vehicle = IF @ = v.id THEN None ELSE @,
                     !.exited_vehicles = Append(@, vid),
                     !.stats.total_crossed = @ + 1,
                     !.stats.urgent_crossed = IF is_urgent(v) THEN @ + 1 ELSE @],
            exited_ids |-> Append(m.exited_ids, vid)]
      ELSE [e |-> [e EXCEPT !.vehicles[vid] = v],
            exited_ids |-> m.exited_ids]

\* Step 1 of move_corridor_vehicles: the list waiting
Waiting(e) ==
  SelectSeq(e.corridor_vehicles,
            LAMBDA vid :
              /\ e.vehicles[vid].pos = WAITING_POSITIONS[e.vehicles[vid].direction]
              /\ e.vehicles[vid].state # "IN_CONFLICT")

\* MoveOne without arbitration: every vehicle at its approach cell enters
MoveOneAllEnter(m, vid, conflict_winner) ==
  LET e == m.e
      vehicle == e.vehicles[vid]
  IN  IF vehicle.pos = WAITING_POSITIONS[vehicle.direction]
      THEN move_vehicle_safely(
             [m EXCEPT !.e.conflict_zone_vehicle = vehicle.id,
                       !.e.vehicles[vid].state = "IN_CONFLICT"], vid)
      ELSE IF vehicle.pos = INTERSECTION_POS
      THEN LET m1 == move_vehicle_safely(m, vid)
           IN  [m1 EXCEPT !.e.conflict_zone_vehicle = None,
                          !.e.vehicles[vid].state = "IN_CORRIDOR"]
      ELSE move_vehicle_safely(m, vid)

\* MoveOne that lets the first vehicle that finds the lock free enter,
\* whoever the selected winner is
MoveOneFirstComer(m, vid, conflict_winner) ==
  LET e == m.e
      vehicle == e.vehicles[vid]
  IN  IF vehicle.pos = WAITING_POSITIONS[vehicle.direction]
      THEN IF vehicle.state = "IN_CONFLICT"
           THEN move_vehicle_safely(m, vid)
           ELSE IF e.conflict_zone_vehicle # None
           THEN [m EXCEPT !.e.stats.collisions_avoided = @ + 1]
           ELSE IF conflict_winner # None
           THEN move_vehicle_safely(
                  [m EXCEPT !.e.conflict_zone_vehicle = vehicle.id,
                            !.e.vehicles[vid].state = "IN_CONFLICT"], vid)
           ELSE [m EXCEPT !.e.stats.collisions_avoided = @ + 1]
      ELSE IF vehicle.pos = INTERSECTION_POS
      THEN LET m1 == move_vehicle_safely(m, vid)
           IN  [m1 EXCEPT !.e.conflict_zone_vehicle = None,
                          !.e.vehicles[vid].state = "IN_CORRIDOR"]
      ELSE move_vehicle_safely(m, vid)


\* MoveOne that keeps the conflict lock of a vehicle leaving the conflict cell
MoveOneKeepsZone(m, vid, conflict_winner) ==
  LET e == m.e
      vehicle == e.vehicles[vid]
  IN  IF vehicle.pos = WAITING_POSITIONS[vehicle.direction]
      THEN IF vehicle.state = "IN_CONFLICT"
           THEN move_vehicle_safely(m, vid)
           ELSE IF e.conflict_zone_vehicle # None
           THEN [m EXCEPT !.e.stats.collisions_avoided = @ + 1]
           ELSE IF conflict_winner # None /\ vehicle.id = conflict_winner
           THEN move_vehicle_safely(
                  [m EXCEPT !.e.conflict_zone_vehicle = vehicle.id,
                            !.e.vehicles[vid].state = "IN_CONFLICT"], vid)
           ELSE [m EXCEPT !.e.stats.collisions_avoided = @ + 1]
      ELSE IF vehicle.pos = INTERSECTION_POS
      THEN LET m1 == move_vehicle_safely(m, vid)
           IN  [m1 EXCEPT !.e.vehicles[vid].state = "IN_CORRIDOR"]
      ELSE move_vehicle_safely(m, vid)

\* MoveOne that leaves the state of a vehicle leaving the conflict cell alone
MoveOneStaysInConflict(m, vid, conflict_winner) ==
  LET e == m.e
      vehicle == e.vehicles[vid]
  IN  IF vehicle.pos = WAITING_POSITIONS[vehicle.direction]
      THEN IF vehicle.state = "IN_CONFLICT"
           THEN move_vehicle_safely(m, vid)
           ELSE IF e.conflict_zone_vehicle # None
           THEN [m EXCEPT !.e.stats.collisions_avoided = @ + 1]
           ELSE IF conflict_winner # None /\ vehicle.id = conflict_winner
           THEN move_vehicle_safely(
                  [m EXCEPT !.e.conflict_zone_vehicle = vehicle.id,
                            !.e.vehicles[vid].state = "IN_CONFLICT"], vid)
           ELSE [m EXCEPT !.e.stats.collisions_avoided = @ + 1]
      ELSE IF vehicle.pos = INTERSECTION_POS
      THEN LET m1 == move_vehicle_safely(m, vid)
           IN  [m1 EXCEPT !.e.conflict_zone_vehicle = None]
      ELSE move_vehicle_safely(m, vid)

\* the body of the loop "Step 3: Move vehicles" for one vehicle
MoveOne(m, vid, conflict_winner) ==
  LET e == m.e
      vehicle == e.vehicles[vid]
  IN  IF vehicle.pos = WAITING_POSITIONS[vehicle.direction]
      THEN IF vehicle.state = "IN_CONFLICT"
           THEN move_vehicle_safely(m, vid)
           ELSE IF e.conflict_zone_vehicle # None
           THEN [m EXCEPT !.e.stats.collisions_avoided = @ + 1]
           ELSE IF conflict_winner # None /\ vehicle.id = conflict_winner
           THEN move_vehicle_safely(
                  [m EXCEPT !.e.conflict_zone_vehicle = vehicle.id,
                            !.e.vehicles[vid].state = "IN_CONFLICT"], vid)
           ELSE [m EXCEPT !.e.stats.collisions_avoided = @ + 1]
      ELSE IF vehicle.pos = INTERSECTION_POS
      THEN LET m1 == move_vehicle_safely(m, vid)
           IN  [m1 EXCEPT !.e.conflict_zone_vehicle = None,
                          !.e.vehicles[vid].state = "IN_CORRIDOR"]
      ELSE move_vehicle_safely(m, vid)

\* the loop over list(self.corridor_vehicles.values()), from index i on
RECURSIVE MoveLoop(_, _, _, _)
MoveLoop(m, snapshot, i, conflict_winner) ==
  IF i > Len(snapshot) THEN m
  ELSE MoveLoop(MoveOne(m, snapshot[i], conflict_winner), snapshot, i + 1,
                conflict_winner)

\* move_corridor_vehicles; rnd1, rnd2 are the random draws of a negotiation
\* "Step 2": the local conflict_winner, sel being what select_at_conflict
\* returned when it was called
ConflictWinner(e, waiting, sel) ==
  IF e.conflict_zone_vehicle # None THEN None
  ELSE IF Len(waiting) >= 2
  THEN (IF sel.result.some THEN sel.result.winner ELSE None)
  ELSE IF Len(waiting) = 1 THEN waiting[1]
  ELSE None

\* the engine at the start of "Step 3", with last_move recording the locals
BeforeMove(e, waiting, sel, conflict_winner) ==
  [Selected(e, sel, "conflict") EXCEPT
     !.last_move.waiting = waiting,
     !.last_move.zone_before = e.conflict_zone_vehicle,
     !.last_move.conflict_winner = conflict_winner,
     !.last_move.pos_before =
        [k \in 1..Len(e.corridor_vehicles) |->
           e.vehicles[e.corridor_vehicles[k]].pos]]

\* "Clean up exited vehicles"
CleanUp(m) ==
  [m.e EXCEPT
     !.corridor_vehicles =
        SelectSeq(@, LAMBDA vid : vid \notin Range(m.exited_ids))]

\* "Step 3" and the clean-up
MoveAll(e1, conflict_winner) ==
  CleanUp(MoveLoop([e |-> e1, exited_ids |-> << >>], e1.corridor_vehicles, 1,
                   conflict_winner))

MoveWithWinner(e, waiting, sel, conflict_winner) ==
  MoveAll(BeforeMove(e, waiting, sel, conflict_winner), conflict_winner)

\* move_corridor_vehicles from "Step 2" on
ResolveConflict(e, waiting, rnd1, rnd2) ==
  IF e.conflict_zone_vehicle = None /\ Len(waiting) >= 2
  THEN LET sel == select_at_conflict(e.mechanism, e.vehicles, waiting,
                                     e.step_count, rnd1, rnd2)
       IN  MoveWithWinner(e, waiting, sel, ConflictWinner(e, waiting, sel))
  ELSE LET sel == [result |-> NoResult, mechanism |-> e.mechanism,
                   vehicles |-> e.vehicles]
       IN  MoveWithWinner(e, waiting, sel, ConflictWinner(e, waiting, sel))

move_corridor_vehicles(e, rnd1, rnd2) ==
  ResolveConflict(e, Waiting(e), rnd1, rnd2)

\* step() with corridor admission run before the parking-to-barrier phase
stepAdmitsBeforeBarrier(e, draws, attrs, rnd) ==
  move_corridor_vehicles(
    move_parking_to_barrier(
      process_barrier(
        process_barrier(
          try_spawn_vehicles(
            [e EXCEPT !.step_count = @ + 1, !.last_move = NoMove],
            1, draws, attrs),
          "NS", rnd[1], rnd[2]),
        "EW", rnd[3], rnd[4]),
      1),
    rnd[5], rnd[6])

\* ---------------------------------------------------------------- step ---
\* the random draws of one step(): draws (the directions whose spawn draw
\* succeeds), attrs (the attribute draws of the spawned vehicles) and rnd
\* (the tie-breaker draws of the negotiations at NS, EW and the conflict
\* cell, two each)
step(e, draws, attrs, rnd) ==
  move_corridor_vehicles(
    process_barrier(
      process_barrier(
        move_parking_to_barrier(
          try_spawn_vehicles(
            [e EXCEPT !.step_count = @ + 1, !.last_move = NoMove],
            1, draws, attrs),
          1),
        "NS", rnd[1], rnd[2]),
      "EW", rnd[3], rnd[4]),
    rnd[5], rnd[6])

\* _vehicle_to_dict; is_negotiating is False in every vehicle of an engine
\* (only Vehicle.execute_action sets it, and the engine never calls it)
vehicle_to_dict(e, v, state, queue_pos, waiting_at_intersection) ==
  [id |-> v.id, direction |-> v.direction, pos |-> v.pos, state |-> state,
   urgency |-> IF e.mechanism_type # "FCFS" THEN v.urgency ELSE None,
   bid |-> IF e.mechanism_type # "FCFS" THEN calculate_bid(v) ELSE None,
   is_urgent |-> is_urgent(v), is_negotiating |-> FALSE,
   fuel |-> v.fuel_level, queue_pos |-> queue_pos,
   waiting_at_intersection |-> waiting_at_intersection]

\* the entries of the vehicles of one parking pool or barrier queue
ZoneDicts(e, zone, state) ==
  [i \in 1..Len(zone) |->
     vehicle_to_dict(e, e.vehicles[zone[i]], state, i - 1, FALSE)]

\* the entry of a vehicle of corridor_vehicles
CorridorDict(e, v) ==
  LET is_waiting == v.pos \in {WAITING_POSITIONS[d] : d \in DirSet}
  IN  vehicle_to_dict(e, v,
                      IF v.state = "IN_CONFLICT" THEN "conflict"
                      ELSE IF is_waiting THEN "waiting" ELSE "corridor",
                      None, is_waiting)

\* the list returned by get_all_vehicles_positions()
get_all_vehicles_positions(e) ==
  ZoneDicts(e, e.parking_zones["N"], "parking")
    \o ZoneDicts(e, e.parking_zones["S"], "parking")
    \o ZoneDicts(e, e.parking_zones["E"], "parking")
    \o ZoneDicts(e, e.parking_zones["W"], "parking")
    \o ZoneDicts(e, e.barrier_queues["N"], "barrier")
    \o ZoneDicts(e, e.barrier_queues["S"], "barrier")
    \o ZoneDicts(e, e.barrier_queues["E"], "barrier")
    \o ZoneDicts(e, e.barrier_queues["W"], "barrier")
    \o [i \in 1..Len(e.corridor_vehicles) |->
          CorridorDict(e, e.vehicles[e.corridor_vehicles[i]])]

\* get_stats() that divides without testing total_crossed
get_statsUnguarded(e) ==
  LET avg_wait == [num |-> e.stats.total_wait_time,
                   den |-> e.stats.total_crossed]
      waiting_count ==
        Cardinality({i \in 1..Len(e.corridor_vehicles) :
                       e.vehicles[e.corridor_vehicles[i]].pos
                         \in {WAITING_POSITIONS[d] : d \in DirSet}})
      result ==
        [step |-> e.step_count,
         mechanism |-> e.mechanism_type,
         total_spawned |-> e.stats.total_spawned,
         total_crossed |-> e.stats.total_crossed,
         urgent_crossed |-> e.stats.urgent_crossed,
         parking_count |-> Len(e.parking_zones["N"]) + Len(e.parking_zones["S"])
                           + Len(e.parking_zones["E"]) + Len(e.parking_zones["W"]),
         barrier_count |-> Len(e.barrier_queues["N"]) + Len(e.barrier_queues["S"])
                           + Len(e.barrier_queues["E"]) + Len(e.barrier_queues["W"]),
         corridor_count |-> Len(e.corridor_vehicles),
         waiting_at_intersection |-> waiting_count,
         avg_wait_time |-> avg_wait,
         ns_corridor |-> IF Truthy(e.corridor_reserved["NS"])
                         THEN "RESERVED" ELSE "FREE",
         ew_corridor |-> IF Truthy(e.corridor_reserved["EW"])
                         THEN "RESERVED" ELSE "FREE",
         conflict_zone |-> IF Truthy(e.conflict_zone_vehicle)
                           THEN "OCCUPIED" ELSE "FREE",
         collisions_avoided |-> e.stats.collisions_avoided]
  IN  e.mechanism.stats @@ result

\* get_stats(); avg_wait_time is the quotient num / den of the division, and
\* the counters of the mechanism are merged into the result
get_stats(e) ==
  LET avg_wait == IF e.stats.total_crossed > 0
                  THEN [num |-> e.stats.total_wait_time,
                        den |-> e.stats.total_crossed]
                  ELSE [num |-> 0, den |-> 1]
      waiting_count ==
        Cardinality({i \in 1..Len(e.corridor_vehicles) :
                       e.vehicles[e.corridor_vehicles[i]].pos
                         \in {WAITING_POSITIONS[d] : d \in DirSet}})
      result ==
        [step |-> e.step_count,
         mechanism |-> e.mechanism_type,
         total_spawned |-> e.stats.total_spawned,
         total_crossed |-> e.stats.total_crossed,
         urgent_crossed |-> e.stats.urgent_crossed,
         parking_count |-> Len(e.parking_zones["N"]) + Len(e.parking_zones["S"])
                           + Len(e.parking_zones["E"]) + Len(e.parking_zones["W"]),
         barrier_count |-> Len(e.barrier_queues["N"]) + Len(e.barrier_queues["S"])
                           + Len(e.barrier_queues["E"]) + Len(e.barrier_queues["W"]),
         corridor_count |-> Len(e.corridor_vehicles),
         waiting_at_intersection |-> waiting_count,
         avg_wait_time |-> avg_wait,
         ns_corridor |-> IF Truthy(e.corridor_reserved["NS"])
                         THEN "RESERVED" ELSE "FREE",
         ew_corridor |-> IF Truthy(e.corridor_reserved["EW"])
                         THEN "RESERVED" ELSE "FREE",
         conflict_zone |-> IF Truthy(e.conflict_zone_vehicle)
                           THEN "OCCUPIED" ELSE "FREE",
         collisions_avoided |-> e.stats.collisions_avoided]
  IN  e.mechanism.stats @@ result

\* reset() that keeps the statistics of the engine
resetKeepsStatistics(e) ==
  [e EXCEPT
     !.step_count = 0, !.vehicle_counter = 0,
     !.parking_zones = [d \in DirSet |-> << >>],
     !.barrier_queues = [d \in DirSet |-> << >>],
     !.corridor_reserved = [a \in {"NS", "EW"} |-> None],
     !.corridor_vehicles = << >>, !.conflict_zone_vehicle = None,
     !.exited_vehicles = << >>,
     !.mechanism = [e.mechanism EXCEPT
                      !.stats = [k \in DOMAIN e.mechanism.stats |-> 0],
                      !.last_auction = None, !.last_negotiation = None],
     !.vehicles = << >>, !.last_move = NoMove]

\* reset(); mechanism.reset() zeroes the statistics and the last result
reset(e) ==
  [e EXCEPT
     !.step_count = 0, !.vehicle_counter = 0,
     !.parking_zones = [d \in DirSet |-> << >>],
     !.barrier_queues = [d \in DirSet |-> << >>],
     !.corridor_reserved = [a \in {"NS", "EW"} |-> None],
     !.corridor_vehicles = << >>, !.conflict_zone_vehicle = None,
     !.exited_vehicles = << >>,
     !.stats = [k \in DOMAIN e.stats |-> 0],
     !.mechanism = [e.mechanism EXCEPT
                      !.stats = [k \in DOMAIN e.mechanism.stats |-> 0],
                      !.last_auction = None, !.last_negotiation = None],
     !.vehicles = << >>, !.last_move = NoMove]
(***************************************************************************)
(* Actions                                                                 *)
(***************************************************************************)
NoCall == [op |-> "none"]

\* the draws of one spawned vehicle
AttrChoices(kind) ==
  IF kind = "FCFS"
  THEN {[forced |-> FALSE, rnd |-> MIN_URGENCY, fuel |-> f] : f \in FuelChoices}
  ELSE {[forced |-> TRUE, rnd |-> MAX_URGENCY, fuel |-> f] : f \in FuelChoices}
       \cup {[forced |-> FALSE, rnd |-> u, fuel |-> f] :
               u \in UrgencyChoices, f \in FuelChoices}

NoRnd == [i \in 1..6 |-> 0]

RndSlot(i) == IF i <= 2 THEN "NS" ELSE IF i <= 4 THEN "EW" ELSE "conflict"

\* the tie-breaker draws of a step whose negotiations are those of the
\* selection points in negotiated (random() is only called by a negotiation)
RndFor(negotiated) ==
  IF negotiated = {} THEN {NoRnd}
  ELSE {[i \in 1..6 |-> IF RndSlot(i) \in negotiated THEN f[i] ELSE 0] :
          f \in [1..6 -> RandomChoices]}

\* one call of step(): at most maxVehicles vehicles are spawned in all, in
\* the directions dirs, during the first window ticks, and at most maxStep
\* ticks are run
StepWith(maxVehicles, maxStep, window, dirs) ==
  /\ call = NoCall
  /\ step_count < maxStep
  /\ \E draws \in SUBSET dirs :
       /\ draws # {} => step_count < window
       /\ vehicle_counter + Cardinality(draws) <= maxVehicles
       /\ \E attrs \in [draws -> AttrChoices(mechanism_type)] :
            \E rnd \in RndFor(step(Engine, draws, attrs, NoRnd).last_move.negotiated) :
              Becomes(step(Engine, draws, attrs, rnd))
  /\ UNCHANGED call

Step == StepWith(MaxVehicles, MaxStep, SpawnWindow, DirSet)

Reset ==
  /\ call = NoCall
  /\ Becomes(reset(Engine))
  /\ UNCHANGED call

\* the engines SimpleIntersection(mechanism, auction_type) can build
InitWith(kinds) ==
  /\ call = NoCall
  /\ \E k \in kinds :
       LET e == NewEngine(k[1], k[2])
       IN  /\ mechanism_type = e.mechanism_type
           /\ mechanism = e.mechanism
           /\ step_count = e.step_count
           /\ vehicle_counter = e.vehicle_counter
           /\ vehicles = e.vehicles
           /\ parking_zones = e.parking_zones
           /\ barrier_queues = e.barrier_queues
           /\ corridor_reserved = e.corridor_reserved
           /\ corridor_vehicles = e.corridor_vehicles
           /\ conflict_zone_vehicle = e.conflict_zone_vehicle
           /\ exited_vehicles = e.exited_vehicles
           /\ stats = e.stats
           /\ last_move = e.last_move

Policies ==
  {<<"FCFS", "vickrey">>, <<"AUCTION", "vickrey">>, <<"AUCTION", "english">>,
   <<"NEGOTIATION", "vickrey">>}

Init == InitWith(Policies)

Next == Step \/ Reset

Spec == Init /\ [][Next]_vars

\* the Auction and Negotiation engines, every vehicle spawned in N
StepPark == StepWith(ParkVehicles, ParkSteps, ParkWindow, {"N"})
NextPark == StepPark \/ Reset
SpecPark == InitWith(Policies \ {<<"FCFS", "vickrey">>}) /\ [][NextPark]_vars

\* the FCFS engine with North traffic only and enough vehicles and ticks to
\* fill its barrier queue and its parking pool
StepCap == StepWith(CapVehicles, CapSteps, CapWindow, {"N"})
NextCap == StepCap \/ Reset
SpecCap == InitWith({<<"FCFS", "vickrey">>}) /\ [][NextCap]_vars

\* the FCFS engine, spawns allowed for longer
StepFCFS == StepWith(FcfsVehicles, FcfsSteps, FcfsWindow, DirSet)
NextFCFS == StepFCFS \/ Reset
SpecFCFS == InitWith({<<"FCFS", "vickrey">>}) /\ [][NextFCFS]_vars

\* the FCFS engine with North-South traffic only, run for longer
StepAxis == StepWith(AxisVehicles, AxisSteps, AxisWindow, {"N", "S"})
NextAxis == StepAxis \/ Reset
SpecAxis == InitWith({<<"FCFS", "vickrey">>}) /\ [][NextAxis]_vars

(***************************************************************************)
(* A mechanism called on its own, on Vehicle objects built by the caller   *)
(* (tests/test_mechanisms.py): vehicles holds the candidate objects,       *)
(* mechanism the mechanism object and call the pending call, its argument  *)
(* list and, once done, the SelectionResult it returned.                   *)
(***************************************************************************)
Perms(n) ==
  {p \in [1..n -> 1..n] : \A i, j \in 1..n : i # j => p[i] # p[j]}

\* no engine is involved: its variables stay those of a new engine; pending
\* is the call about to be made
InitObjects(kind, auction_type, vs, pending) ==
  LET e == NewEngine(kind, auction_type)
  IN  /\ mechanism_type = e.mechanism_type
      /\ mechanism = e.mechanism
      /\ step_count = e.step_count
      /\ vehicle_counter = e.vehicle_counter
      /\ vehicles = vs
      /\ parking_zones = e.parking_zones
      /\ barrier_queues = e.barrier_queues
      /\ corridor_reserved = e.corridor_reserved
      /\ corridor_vehicles = e.corridor_vehicles
      /\ conflict_zone_vehicle = e.conflict_zone_vehicle
      /\ exited_vehicles = e.exited_vehicles
      /\ stats = e.stats
      /\ last_move = e.last_move
      /\ call = pending

InitCall(kind, auction_type, vs, candidates) ==
  InitObjects(kind, auction_type, vs,
              [op |-> "select", candidates |-> candidates, done |-> FALSE,
               ret |-> NoResult])

\* mech.select(candidates, axis, context) of the pending call
CallSelect ==
  /\ call.op = "select"
  /\ ~call.done
  /\ LET sel == select(mechanism, vehicles, call.candidates, 0, 0, 0)
     IN  /\ mechanism' = sel.mechanism
         /\ vehicles' = sel.vehicles
         /\ call' = [call EXCEPT !.done = TRUE, !.ret = sel.result]
  /\ UNCHANGED <<mechanism_type, step_count, vehicle_counter, parking_zones,
                 barrier_queues, corridor_reserved, corridor_vehicles,
                 conflict_zone_vehicle, exited_vehicles, stats, last_move>>

\* FCFS vehicles 1..n, each with an arrival time and with barrier_time unset
\* or set to a tick from 1 on that is not before its arrival, listed in any
\* order
InitFcfsSelect ==
  \E n \in 1..MaxCandidates :
    \E arr \in [1..n -> 0..MaxTime], bar \in [1..n -> {None} \cup 1..MaxTime],
       order \in Perms(n) :
      /\ \A i \in 1..n : bar[i] # None => bar[i] >= arr[i]
      /\ InitCall("FCFS", "vickrey",
                  [i \in 1..n |->
                     [NewVehicle(i, "N", arr[i], None, FALSE, "FCFS",
                                 MIN_URGENCY, 60)
                        EXCEPT !.barrier_time = bar[i]]],
                  order)

SpecFcfsSelect == InitFcfsSelect /\ [][CallSelect]_vars

\* Vehicle(i, 'N', arrival_time=0, urgency=u, mechanism=AUCTION) for 2..n
\* candidates, listed in any order, given to a Vickrey or an English auction
InitAuctionSelect ==
  \E auction_type \in {"vickrey", "english"} :
    \E n \in 2..MaxCandidates :
      \E u \in [1..n -> CandidateUrgencies], order \in Perms(n) :
        InitCall("AUCTION", auction_type,
                 [i \in 1..n |->
                    NewVehicle(i, "N", 0, u[i], FALSE, "AUCTION",
                               MIN_URGENCY, 60)],
                 order)

SpecAuctionSelect == InitAuctionSelect /\ [][CallSelect]_vars

(***************************************************************************)
(* AuctionMechanism.select of an English auction, one round of the while   *)
(* loop of _run_english_auction at a time.  call holds the locals of the   *)
(* method and call.at the position in it: "start" (line 152), "loop" (the  *)
(* test of the while, line 160), "after" (line 191) and "done".            *)
(***************************************************************************)
\* a loop without its safety break
CapNever(round_num) == FALSE

\* "if round_num >= 100: break"
CapReached(round_num) == round_num >= RoundCap

InitEnglishRounds ==
  \E n \in 2..RoundCandidates :
    \E u \in [1..n -> CandidateUrgencies], order \in Perms(n) :
      InitObjects("AUCTION", "english",
                  [i \in 1..n |->
                     NewVehicle(i, "N", 0, u[i], FALSE, "AUCTION",
                                MIN_URGENCY, 60)],
                  [op |-> "english", at |-> "start", candidates |-> order,
                   all_bids |-> << >>, active_bidders |-> << >>,
                   current_price |-> 0, round_num |-> 0, done |-> FALSE,
                   ret |-> NoResult])

EngineUntouched ==
  UNCHANGED <<mechanism_type, step_count, vehicle_counter, parking_zones,
              barrier_queues, corridor_reserved, corridor_vehicles,
              conflict_zone_vehicle, exited_vehicles, stats, last_move>>

\* lines 152-158: the bids are collected (calculate_bid stores bid_amount)
EnglishStart ==
  /\ call.op = "english"
  /\ call.at = "start"
  /\ call' = [call EXCEPT !.at = "loop",
                          !.all_bids = AllBids(vehicles, call.candidates),
                          !.active_bidders = call.candidates]
  /\ vehicles' = StoreBids(vehicles, Range(call.candidates))
  /\ UNCHANGED mechanism
  /\ EngineUntouched

\* the locals after one more pass of the while body, lines 161-188
EnglishRoundAt(c, round_num, current_price) ==
  [c EXCEPT !.round_num = round_num,
            !.current_price = current_price,
            !.active_bidders =
               SelectSeq(@, LAMBDA vid : c.all_bids[vid] >= current_price),
            !.at = IF CapReached(round_num) THEN "after" ELSE "loop"]

EnglishRound ==
  /\ call.op = "english"
  /\ call.at = "loop"
  /\ Len(call.active_bidders) > 1
  /\ call' = EnglishRoundAt(call, call.round_num + 1,
                            call.current_price + increment)
  /\ UNCHANGED <<mechanism, vehicles>>
  /\ EngineUntouched

\* the AuctionResult of lines 191-205
EnglishResult(c, winner_id) ==
  [auction_type |-> "english", winner_id |-> winner_id,
   winning_bid |-> c.all_bids[winner_id], price_paid |-> c.current_price,
   total_rounds |-> c.round_num, all_bids |-> c.all_bids]

\* what select returns and leaves in the mechanism once the auction ended
EnglishOutcome(c) ==
  AuctionOutcome(mechanism, vehicles, c.candidates,
                 EnglishResult(c, EnglishWinner(c.all_bids, c.candidates,
                                                c.active_bidders)))

\* the while test fails, or the break was taken: lines 191-205 and the end
\* of select
EnglishReturn ==
  /\ call.op = "english"
  /\ \/ call.at = "after"
     \/ call.at = "loop" /\ Len(call.active_bidders) <= 1
  /\ call' = [call EXCEPT !.at = "done", !.done = TRUE,
                          !.ret = EnglishOutcome(call).result]
  /\ mechanism' = EnglishOutcome(call).mechanism
  /\ vehicles' = EnglishOutcome(call).vehicles
  /\ EngineUntouched

NextEnglishRounds == EnglishStart \/ EnglishRound \/ EnglishReturn

\* the method runs to its end once called: nothing else is scheduled
SpecEnglishRounds ==
  InitEnglishRounds /\ [][NextEnglishRounds]_vars /\ WF_vars(NextEnglishRounds)

(***************************************************************************)
(* The negotiation mechanism called on its own: select(candidates, axis,   *)
(* context) or select_at_conflict(waiting, context) with the tick passed   *)
(* in context['current_step'], on vehicles that arrived no later than that tick,   *)
(* as the engine's vehicles have; rnd1 and rnd2 are the two draws of       *)
(* random.uniform(0, 10), in hundredths.                                   *)
(***************************************************************************)
NegotiationUrgencies == {3, 9}

NegotiationRandomChoices == {0, 200, 900}

NegotiationSteps == NegTime .. NegTime + 1

InitNegotiationCall ==
  \E n \in 2..NegCandidates :
    \E urgency \in [1..n -> NegotiationUrgencies],
       arrival_time \in [1..n -> 0..NegTime] :
      \E method \in {"select", "select_at_conflict"},
         current_step \in NegotiationSteps,
         rnd1 \in NegotiationRandomChoices,
         rnd2 \in NegotiationRandomChoices :
        InitObjects("NEGOTIATION", "vickrey",
                    [id \in 1..n |->
                       NewVehicle(id, "N", arrival_time[id], urgency[id],
                                  FALSE, "NEGOTIATION", MIN_URGENCY, 60)],
                    [op |-> "negotiation", method |-> method,
                     candidates |-> [i \in 1..n |-> i],
                     current_step |-> current_step,
                     rnd1 |-> rnd1, rnd2 |-> rnd2,
                     done |-> FALSE, ret |-> NoResult])

\* the pending call of the negotiation mechanism
NegotiationCall(m, vs, c) ==
  IF c.method = "select"
  THEN NegotiationSelect(m, vs, c.candidates, c.current_step, c.rnd1, c.rnd2)
  ELSE NegotiationSelectAtConflict(m, vs, c.candidates, c.current_step,
                                   c.rnd1, c.rnd2)

CallNegotiation ==
  /\ call.op = "negotiation"
  /\ ~call.done
  /\ LET sel == NegotiationCall(mechanism, vehicles, call)
     IN  /\ mechanism' = sel.mechanism
         /\ vehicles' = sel.vehicles
         /\ call' = [call EXCEPT !.done = TRUE, !.ret = sel.result]
  /\ UNCHANGED <<mechanism_type, step_count, vehicle_counter, parking_zones,
                 barrier_queues, corridor_reserved, corridor_vehicles,
                 conflict_zone_vehicle, exited_vehicles, stats, last_move>>

SpecNegotiationCall == InitNegotiationCall /\ [][CallNegotiation]_vars

(***************************************************************************)
(* The Chicken Game mechanism (mechanisms/chicken_game.py).  The Mechanism *)
(* enum has no member for it, so no engine runs it: it is an object called *)
(* on its own.  The mechanism object is the record                         *)
(*   [kind, default_strategy, stats, history, last_outcome]                *)
(* and a player is either a Vehicle or any object with an id and an        *)
(* urgency but no chicken_game_decision method, for which _get_action      *)
(* falls back to the mechanism's strategy.                                 *)
(***************************************************************************)
ChickenStrategies ==
  {"AGGRESSIVE", "COOPERATIVE", "MIXED", "RATIONAL", "TIT_FOR_TAT"}

ChickenStats ==
  [selections |-> 0, conflict_selections |-> 0, games_played |-> 0,
   collisions |-> 0, near_misses |-> 0, deadlocks |-> 0, clean_passes |-> 0,
   total_payoff_a |-> 0, total_payoff_b |-> 0, go_count |-> 0,
   yield_count |-> 0]

ChickenGameMechanism(default_strategy) ==
  [kind |-> "CHICKEN", default_strategy |-> default_strategy,
   stats |-> ChickenStats, history |-> << >>, last_outcome |-> None]

PAYOFF_MATRIX ==
  [action1 \in {"YIELD", "GO"} |->
     [action2 \in {"YIELD", "GO"} |->
        IF action1 = "YIELD"
        THEN IF action2 = "YIELD" THEN <<1, 1>> ELSE <<0, 3>>
        ELSE IF action2 = "YIELD" THEN <<3, 0>> ELSE <<-10, -10>>]]

\* Vehicle.chicken_game_decision, the expected utilities in tenths
chicken_game_decision(v, other_urgency) ==
  LET eu_yield == (10 - other_urgency)
                    + (IF v.bdi_strategy = "cooperative" THEN 20 ELSE 0)
      eu_go == 3 * (10 - other_urgency) - 10 * other_urgency
                 + 5 * v.urgency
                 + (IF v.bdi_strategy = "aggressive" THEN 20 ELSE 0)
  IN  IF eu_go > eu_yield THEN "go" ELSE "yield"

\* ChickenGameMechanism._apply_strategy; rnd is random.random() in
\* thousandths, the expected utilities are in tenths
apply_strategy(m, own_urgency, other_urgency, rnd) ==
  CASE m.default_strategy = "AGGRESSIVE" -> "GO"
    [] m.default_strategy = "COOPERATIVE" -> "YIELD"
    [] m.default_strategy = "MIXED" ->
         IF rnd < 100 * own_urgency THEN "GO" ELSE "YIELD"
    [] m.default_strategy = "RATIONAL" ->
         IF 3 * (10 - other_urgency) - 10 * other_urgency + 3 * own_urgency
              > 10 - other_urgency
         THEN "GO" ELSE "YIELD"
    [] m.default_strategy = "TIT_FOR_TAT" ->
         IF Len(m.history) > 0
         THEN m.history[Len(m.history)].action_b
         ELSE "YIELD"

\* hasattr(vehicle, 'chicken_game_decision')
HasDecision(vehicle) == "bdi_strategy" \in DOMAIN vehicle

\* ChickenGameMechanism._get_action
get_action(m, vehicle, other_urgency, rnd) ==
  IF HasDecision(vehicle)
  THEN IF chicken_game_decision(vehicle, other_urgency) = "go"
       THEN "GO" ELSE "YIELD"
  ELSE apply_strategy(m, vehicle.urgency, other_urgency, rnd)

ChickenGameOutcome(v1, v2, action_a, action_b, payoffs, winner_id, is_collision, is_deadlock) ==
  [player_a_id |-> v1.id, player_b_id |-> v2.id,
   action_a |-> action_a, action_b |-> action_b,
   payoff_a |-> payoffs[1], payoff_b |-> payoffs[2],
   winner_id |-> winner_id,
   is_collision |-> is_collision, is_deadlock |-> is_deadlock]

\* both chose GO and neither is overridden
NearMissCollides(v1, v2) ==
  ChickenGameOutcome(v1, v2, "GO", "GO", PAYOFF_MATRIX["GO"]["GO"], None,
                     TRUE, FALSE)

\* both chose GO and the second player is the one overridden
NearMissSecondYields(v1, v2) ==
  ChickenGameOutcome(v1, v2, "GO", "YIELD", <<-5, -5>>, v1.id, TRUE, FALSE)

\* _play_chicken_game when both chose GO: one action is overridden
NearMiss(v1, v2) ==
  IF v1.urgency >= v2.urgency
  THEN ChickenGameOutcome(v1, v2, "GO", "YIELD", <<-5, -5>>, v1.id,
                          TRUE, FALSE)
  ELSE ChickenGameOutcome(v1, v2, "YIELD", "GO", <<-5, -5>>, v2.id,
                          TRUE, FALSE)

\* _play_chicken_game once the two actions are chosen
PlayActions(v1, v2, action1, action2) ==
  IF action1 = "GO" /\ action2 = "YIELD"
  THEN ChickenGameOutcome(v1, v2, action1, action2,
                          PAYOFF_MATRIX[action1][action2], v1.id,
                          FALSE, FALSE)
  ELSE IF action1 = "YIELD" /\ action2 = "GO"
  THEN ChickenGameOutcome(v1, v2, action1, action2,
                          PAYOFF_MATRIX[action1][action2], v2.id,
                          FALSE, FALSE)
  ELSE IF action1 = "GO" /\ action2 = "GO"
  THEN NearMiss(v1, v2)
  ELSE ChickenGameOutcome(v1, v2, action1, action2,
                          PAYOFF_MATRIX[action1][action2], None,
                          FALSE, TRUE)

\* the outcome _play_chicken_game returns; it also appends it to history
\* and stores it in last_outcome (ChickenPlayed)
play_chicken_game(m, v1, v2, rnd1, rnd2) ==
  PlayActions(v1, v2, get_action(m, v1, v2.urgency, rnd1),
              get_action(m, v2, v1.urgency, rnd2))

\* ChickenGameMechanism._update_stats
ChickenUpdateStats(mech_stats, outcome) ==
  LET go_actions == (IF outcome.action_a = "GO" THEN 1 ELSE 0)
                      + (IF outcome.action_b = "GO" THEN 1 ELSE 0)
  IN  [mech_stats EXCEPT
         !.games_played = @ + 1,
         !.near_misses = IF outcome.is_collision THEN @ + 1 ELSE @,
         !.deadlocks = IF ~outcome.is_collision /\ outcome.is_deadlock
                       THEN @ + 1 ELSE @,
         !.clean_passes = IF ~outcome.is_collision /\ ~outcome.is_deadlock
                          THEN @ + 1 ELSE @,
         !.total_payoff_a = @ + outcome.payoff_a,
         !.total_payoff_b = @ + outcome.payoff_b,
         !.go_count = @ + go_actions,
         !.yield_count = @ + (2 - go_actions)]

\* the mechanism after _play_chicken_game and _update_stats
ChickenPlayed(m, outcome) ==
  [m EXCEPT !.history = Append(@, outcome),
            !.last_outcome = outcome,
            !.stats = ChickenUpdateStats(m.stats, outcome)]

\* the first candidate wins whenever the game names no winner
TiebreakFirst(v1, v2) == v1.id

\* select's tiebreak when the outcome names no winner
Tiebreak(v1, v2) == IF v1.urgency >= v2.urgency THEN v1.id ELSE v2.id

\* the winner select determines and the SelectionResult it returns
ChickenResult(v1, v2, outcome) ==
  [some |-> TRUE,
   winner |-> IF outcome.winner_id # None
              THEN (IF outcome.winner_id = v1.id THEN v1.id ELSE v2.id)
              ELSE Tiebreak(v1, v2),
   method |-> "chicken_game",
   action_a |-> outcome.action_a, action_b |-> outcome.action_b,
   payoff_a |-> outcome.payoff_a, payoff_b |-> outcome.payoff_b,
   is_collision |-> outcome.is_collision,
   is_deadlock |-> outcome.is_deadlock]

ChickenSelected(m, v1, v2, outcome) ==
  [result |-> ChickenResult(v1, v2, outcome),
   mechanism |-> ChickenPlayed(m, outcome)]

\* ChickenGameMechanism.select; select_at_conflict calls it with the waiting
\* vehicles
ChickenSelect(m, vs, candidates, rnd1, rnd2) ==
  IF Len(candidates) = 0
  THEN [result |-> NoResult, mechanism |-> m]
  ELSE IF Len(candidates) = 1
  THEN [result |-> [some |-> TRUE, winner |-> candidates[1],
                    method |-> "single_candidate"],
        mechanism |-> m]
  ELSE ChickenSelected(m, vs[candidates[1]], vs[candidates[2]],
                       play_chicken_game(m, vs[candidates[1]],
                                         vs[candidates[2]], rnd1, rnd2))

\* ChickenGameMechanism.reset
ChickenResetMechanism(m) ==
  [m EXCEPT !.stats = ChickenStats, !.history = << >>, !.last_outcome = None]

(***************************************************************************)
(* A Chicken Game mechanism of any strategy playing up to MaxGames games   *)
(* between players created beforehand: Vehicles of the Auction policy and  *)
(* objects without chicken_game_decision, of the urgencies in              *)
(* ChickenUrgencies.  call holds the number of games played, the last      *)
(* candidate list and the SelectionResult returned for it.                 *)
(***************************************************************************)
ChickenUrgencies == {0, 1, 9}

\* the draws of random.random(), in thousandths
ChickenRandomChoices == {0, 500}

\* a player object of the given kind
ChickenPlayer(id, is_vehicle, urgency) ==
  IF is_vehicle
  THEN NewVehicle(id, "N", 0, urgency, FALSE, "AUCTION", MIN_URGENCY, 60)
  ELSE [id |-> id, urgency |-> urgency]

InitChicken ==
  \E default_strategy \in ChickenStrategies, n \in 2..ChickenPlayers :
    \E is_vehicle \in [1..n -> BOOLEAN],
       urgency \in [1..n -> ChickenUrgencies] :
      LET e == NewEngine("FCFS", "vickrey")
      IN  /\ mechanism_type = e.mechanism_type
          /\ mechanism = ChickenGameMechanism(default_strategy)
          /\ step_count = e.step_count
          /\ vehicle_counter = e.vehicle_counter
          /\ vehicles = [id \in 1..n |->
                           ChickenPlayer(id, is_vehicle[id], urgency[id])]
          /\ parking_zones = e.parking_zones
          /\ barrier_queues = e.barrier_queues
          /\ corridor_reserved = e.corridor_reserved
          /\ corridor_vehicles = e.corridor_vehicles
          /\ conflict_zone_vehicle = e.conflict_zone_vehicle
          /\ exited_vehicles = e.exited_vehicles
          /\ stats = e.stats
          /\ last_move = e.last_move
          /\ call = [op |-> "chicken", games |-> 0, candidates |-> << >>,
                     ret |-> NoResult]

\* mech.select(candidates, axis) on the players in some order
ChickenGame ==
  /\ call.op = "chicken"
  /\ call.games < MaxGames
  /\ \E order \in Perms(Len(vehicles)),
        rnd1 \in ChickenRandomChoices, rnd2 \in ChickenRandomChoices :
       LET sel == ChickenSelect(mechanism, vehicles, order, rnd1, rnd2)
       IN  /\ mechanism' = sel.mechanism
           /\ call' = [call EXCEPT !.games = @ + 1, !.candidates = order,
                                   !.ret = sel.result]
  /\ UNCHANGED <<mechanism_type, step_count, vehicle_counter, vehicles,
                 parking_zones, barrier_queues, corridor_reserved,
                 corridor_vehicles, conflict_zone_vehicle, exited_vehicles,
                 stats, last_move>>

\* mech.reset()
ChickenReset ==
  /\ call.op = "chicken"
  /\ mechanism' = ChickenResetMechanism(mechanism)
  /\ UNCHANGED <<mechanism_type, step_count, vehicle_counter, vehicles,
                 parking_zones, barrier_queues, corridor_reserved,
                 corridor_vehicles, conflict_zone_vehicle, exited_vehicles,
                 stats, last_move, call>>

NextChicken == ChickenGame \/ ChickenReset

SpecChicken == InitChicken /\ [][NextChicken]_vars

(***************************************************************************)
(* One FCFS engine stepped and reset by a caller that records in           *)
(* call.assigned the id of every vehicle the engine spawned, in the order  *)
(* of the spawns: at most IdSpawns vehicles in all, at most IdSteps ticks  *)
(* between two resets.                                                     *)
(***************************************************************************)
InitIds ==
  /\ call = [op |-> "ids", assigned |-> << >>]
  /\ LET e == NewEngine("FCFS", "vickrey")
     IN  /\ mechanism_type = e.mechanism_type
         /\ mechanism = e.mechanism
         /\ step_count = e.step_count
         /\ vehicle_counter = e.vehicle_counter
         /\ vehicles = e.vehicles
         /\ parking_zones = e.parking_zones
         /\ barrier_queues = e.barrier_queues
         /\ corridor_reserved = e.corridor_reserved
         /\ corridor_vehicles = e.corridor_vehicles
         /\ conflict_zone_vehicle = e.conflict_zone_vehicle
         /\ exited_vehicles = e.exited_vehicles
         /\ stats = e.stats
         /\ last_move = e.last_move

\* the ids of the vehicles of e that were created after the first known ones
SpawnedIds(known, e) ==
  [i \in 1..(Len(e.vehicles) - known) |-> e.vehicles[known + i].id]

\* the engine becomes e and the caller records the ids of its new vehicles
IdsStepTo(e) ==
  /\ Becomes(e)
  /\ call' = [call EXCEPT !.assigned = @ \o SpawnedIds(Len(vehicles), e)]

StepIds ==
  /\ call.op = "ids"
  /\ step_count < IdSteps
  /\ \E draws \in SUBSET DirSet :
       /\ Len(call.assigned) + Cardinality(draws) <= IdSpawns
       /\ \E attrs \in [draws -> AttrChoices(mechanism_type)] :
            IdsStepTo(step(Engine, draws, attrs, NoRnd))

ResetIds ==
  /\ call.op = "ids"
  /\ Becomes(reset(Engine))
  /\ UNCHANGED call

NextIds == StepIds \/ ResetIds

SpecIds == InitIds /\ [][NextIds]_vars

(***************************************************************************)
(* Two FCFS engines built with the same seed in one process.  The engines  *)
(* draw from the generator of the random module, which the process has     *)
(* once: call.gen is its state, an integer modulo Modulus that seed(n)     *)
(* sets to n and every draw advances.  call.trace[x] lists the states      *)
(* engine x went through.                                                  *)
(***************************************************************************)
Modulus == 16

\* spawn_rate of both engines, in Modulus-ths
SpawnRate == 8

Seeds == {0, 1, 2}

\* states the generator can be in when the first engine is built
InitialGens == {3, 11}

EngineNames == {"a", "b"}

\* random.seed(n)
SeedGen(n) == n % Modulus

\* the state of the generator after one draw; the draw random() returns the
\* new state divided by Modulus
NextGen(g) == (5 * g + 3) % Modulus

\* random.randint(30, 100) returned by the draw that leads to state g
RandInt(g) == 30 + (g * 71) \div Modulus

\* try_spawn_vehicles and the Vehicle() calls of spawn_vehicle reading the
\* generator from state g on, from the i-th direction on: one draw per
\* direction and one more, the fuel, per spawned vehicle
RECURSIVE SeededDraws(_, _, _, _, _)
SeededDraws(e, g, i, draws, fuels) ==
  IF i > Len(Directions)
  THEN [gen |-> g, draws |-> draws,
        attrs |-> [d \in draws |->
                     [forced |-> FALSE, rnd |-> MIN_URGENCY, fuel |-> fuels[d]]]]
  ELSE IF NextGen(g) < SpawnRate
          /\ Len(e.parking_zones[Directions[i]]) < ParkingCap
  THEN SeededDraws(e, NextGen(NextGen(g)), i + 1, draws \cup {Directions[i]},
                   [fuels EXCEPT ![Directions[i]] = RandInt(NextGen(NextGen(g)))])
  ELSE SeededDraws(e, NextGen(g), i + 1, draws, fuels)

\* step() of the FCFS engine e with the draws s read from the generator
SeededStep(e, s) ==
  [e |-> step(e, s.draws, s.attrs, NoRnd), gen |-> s.gen]

InitSeeded ==
  \E seed \in Seeds, g \in InitialGens :
    LET e == NewEngine("FCFS", "vickrey")
    IN  /\ mechanism_type = e.mechanism_type
        /\ mechanism = e.mechanism
        /\ step_count = e.step_count
        /\ vehicle_counter = e.vehicle_counter
        /\ vehicles = e.vehicles
        /\ parking_zones = e.parking_zones
        /\ barrier_queues = e.barrier_queues
        /\ corridor_reserved = e.corridor_reserved
        /\ corridor_vehicles = e.corridor_vehicles
        /\ conflict_zone_vehicle = e.conflict_zone_vehicle
        /\ exited_vehicles = e.exited_vehicles
        /\ stats = e.stats
        /\ last_move = e.last_move
        /\ call = [op |-> "seeded", seed |-> seed, gen |-> g, built |-> {},
                   engine |-> [x \in EngineNames |-> e],
                   trace |-> [x \in EngineNames |-> << >>]]

\* x = SimpleIntersection(Mechanism.FCFS, spawn_rate=..., seed=call.seed):
\* "if seed: random.seed(seed)"
SeededBuild ==
  /\ call.op = "seeded"
  /\ \E x \in EngineNames \ call.built :
       call' = [call EXCEPT
                  !.built = @ \cup {x},
                  !.gen = IF Truthy(call.seed) THEN SeedGen(call.seed) ELSE @]
  /\ UNCHANGED <<mechanism, vehicles>>
  /\ EngineUntouched

\* the engine x has made a step that left it as r.e and the generator as r.gen
SeededStepped(x, r) ==
  call' = [call EXCEPT !.engine[x] = r.e, !.gen = r.gen,
                       !.trace[x] = Append(@, r.e)]

\* x.step()
SeededRun ==
  /\ call.op = "seeded"
  /\ \E x \in call.built :
       /\ Len(call.trace[x]) < SeedSteps
       /\ SeededStepped(x, SeededStep(call.engine[x],
                                      SeededDraws(call.engine[x], call.gen, 1, {},
                                                  [d \in DirSet |-> 0])))
  /\ UNCHANGED <<mechanism, vehicles>>
  /\ EngineUntouched

NextSeeded == SeededBuild \/ SeededRun

SpecSeeded == InitSeeded /\ [][NextSeeded]_vars

(***************************************************************************)
(* The engines with North traffic only, stepped, reset and queried: the    *)
(* queries get_stats(), get_all_vehicles_positions(), get_last_auction()   *)
(* and get_last_negotiation() are called between the ticks.                *)
(***************************************************************************)
QueryNames ==
  {"get_stats", "get_all_vehicles_positions", "get_last_auction",
   "get_last_negotiation"}

\* the vehicles _vehicle_to_dict is called on
Listed(e) ==
  Range(e.parking_zones["N"]) \cup Range(e.parking_zones["S"])
    \cup Range(e.parking_zones["E"]) \cup Range(e.parking_zones["W"])
    \cup Range(e.barrier_queues["N"]) \cup Range(e.barrier_queues["S"])
    \cup Range(e.barrier_queues["E"]) \cup Range(e.barrier_queues["W"])
    \cup Range(e.corridor_vehicles)

\* the engine after the query q: get_stats, get_last_auction and
\* get_last_negotiation only read; _vehicle_to_dict calls v.calculate_bid(),
\* which stores the bid, when the policy is not FCFS
AfterQuery(e, q) ==
  IF q = "get_all_vehicles_positions" /\ e.mechanism_type # "FCFS"
  THEN [e EXCEPT !.vehicles = StoreBids(e.vehicles, Listed(e))]
  ELSE e

Query ==
  /\ call = NoCall
  /\ \E q \in QueryNames : Becomes(AfterQuery(Engine, q))
  /\ UNCHANGED call

StepQuery == StepWith(QueryVehicles, QuerySteps, QueryWindow, {"N"})
NextQuery == StepQuery \/ Reset \/ Query
SpecQuery == InitWith(Policies) /\ [][NextQuery]_vars

(***************************************************************************)
(* The FCFS engine with the two methods of its policy replaced by stubs    *)
(* that return any vehicle of the simulation, a candidate or not.          *)
(* call.raised tells that step() raised, call.faults lists the selection   *)
(* points of the last step() at which the stub returned a vehicle that was *)
(* not a candidate, call.quiet those at which it returned None or a result *)
(* without winner.                                                         *)
(***************************************************************************)
\* "if result and result.winner:" and what follows;
\* self.barrier_queues[winner.direction].remove(winner) raises ValueError
\* when winner is not in that queue
AdmitOrRaise(e, axis, winner) ==
  IF winner \in Range(e.barrier_queues[e.vehicles[winner].direction])
  THEN [e |-> AdmitToCorridor(e, axis, winner), raised |-> FALSE]
  ELSE [e |-> e, raised |-> TRUE]

\* the step r = [e, raised, faults, quiet] after the outcome a = [e, raised]
\* of a selection that returned ret for candidates at the selection point
\* where: faults gets the points where the winner was no candidate, quiet
\* those where there was no outcome or no winner
StubOutcome(r, a, where, ret, candidates) ==
  [e |-> a.e, raised |-> a.raised,
   faults |-> IF ret.some /\ ret.winner # None
                 /\ ret.winner \notin Range(candidates)
              THEN r.faults \cup {where} ELSE r.faults,
   quiet |-> IF ret.some /\ ret.winner # None THEN r.quiet
             ELSE r.quiet \cup {where}]

\* process_barrier(axis) with the stub returning ret = [some, winner]:
\* "if result and result.winner:"
StubBarrier(r, axis, ret) ==
  IF r.raised \/ r.e.corridor_reserved[axis] # None
     \/ BarrierCandidates(r.e, axis) = << >>
  THEN r
  ELSE StubOutcome(r,
                   IF ret.some /\ ret.winner # None
                   THEN AdmitOrRaise(r.e, axis, ret.winner)
                   ELSE [e |-> r.e, raised |-> FALSE],
                   axis, ret, BarrierCandidates(r.e, axis))

\* what the stub returns, as a selection of the model
StubSelection(e, ret) ==
  [result |-> IF ret.some
              THEN SelectionResult(ret.winner, "unknown", 0, 0, 0)
              ELSE NoResult,
   mechanism |-> e.mechanism, vehicles |-> e.vehicles]

\* "Step 2" and "Step 3" with the stub returning ret: "if result:" takes
\* result.winner and calls _log_conflict_resolution, which reads
\* conflict_winner.id and raises AttributeError when the winner is None
StubResolve(e, waiting, ret) ==
  IF ret.some /\ ret.winner = None
  THEN [e |-> e, raised |-> TRUE]
  ELSE [e |-> MoveWithWinner(e, waiting, StubSelection(e, ret),
                             IF ret.some THEN ret.winner ELSE None),
        raised |-> FALSE]

\* move_corridor_vehicles() with the stub returning ret
StubConflict(r, waiting, ret) ==
  IF r.raised THEN r
  ELSE IF r.e.conflict_zone_vehicle = None /\ Len(waiting) >= 2
  THEN StubOutcome(r, StubResolve(r.e, waiting, ret), "conflict", ret, waiting)
  ELSE [r EXCEPT !.e = ResolveConflict(r.e, waiting, 0, 0)]

StubMove(r, ret) == StubConflict(r, Waiting(r.e), ret)

\* step() with the stubs returning w.NS, w.EW and w.conflict at the three
\* selection points
StubStep(e, draws, attrs, w) ==
  StubMove(
    StubBarrier(
      StubBarrier(
        [e |-> move_parking_to_barrier(
                 try_spawn_vehicles(
                   [e EXCEPT !.step_count = @ + 1, !.last_move = NoMove],
                   1, draws, attrs),
                 1),
         raised |-> FALSE, faults |-> {}, quiet |-> {}],
        "NS", w.NS),
      "EW", w.EW),
    w.conflict)

InitStub ==
  /\ call = [op |-> "stub", raised |-> FALSE, faults |-> {}, quiet |-> {}]
  /\ LET e == NewEngine("FCFS", "vickrey")
     IN  /\ mechanism_type = e.mechanism_type
         /\ mechanism = e.mechanism
         /\ step_count = e.step_count
         /\ vehicle_counter = e.vehicle_counter
         /\ vehicles = e.vehicles
         /\ parking_zones = e.parking_zones
         /\ barrier_queues = e.barrier_queues
         /\ corridor_reserved = e.corridor_reserved
         /\ corridor_vehicles = e.corridor_vehicles
         /\ conflict_zone_vehicle = e.conflict_zone_vehicle
         /\ exited_vehicles = e.exited_vehicles
         /\ stats = e.stats
         /\ last_move = e.last_move

\* the values a stub can return when n vehicles have been spawned: None, a
\* SelectionResult without winner, or a SelectionResult naming a vehicle
StubReturns(n) ==
  {[some |-> FALSE, winner |-> None]}
    \cup {[some |-> TRUE, winner |-> x] : x \in {None} \cup 1..n}

\* the engine and the caller after the step r
StubStepped(r) ==
  /\ Becomes(r.e)
  /\ call' = [call EXCEPT !.raised = r.raised, !.faults = r.faults,
                          !.quiet = r.quiet]

\* step() of the engine with stubs; no step follows one that raised
StepStub ==
  /\ call.op = "stub"
  /\ ~call.raised
  /\ step_count < StubSteps
  /\ \E draws \in SUBSET DirSet :
       /\ vehicle_counter + Cardinality(draws) <= StubVehicles
       /\ \E attrs \in [draws -> AttrChoices(mechanism_type)],
             w \in [{"NS", "EW", "conflict"} ->
                      StubReturns(vehicle_counter + Cardinality(draws))] :
            StubStepped(StubStep(Engine, draws, attrs, w))

SpecStub == InitStub /\ [][StepStub]_vars

\* ---- step() called again and again under FCFS (SpecLive) -----------------
StepLive == StepWith(LiveVehicles, LiveSteps, LiveWindow, DirSet)

\* what every call of step() does to the tick counter
Tick == call = NoCall /\ step_count < LiveSteps /\ step_count' = step_count + 1

\* the driver keeps calling step() (timer_loop of app.py): while a tick can
\* be run, one is run
SpecLive ==
  /\ InitWith({<<"FCFS", "vickrey">>})
  /\ [][StepLive]_vars
  /\ WF_step_count(Tick)

(***************************************************************************)
(* Properties                                                              *)
(***************************************************************************)
Ids == DOMAIN vehicles

\* C5: under FCFS, of two vehicles of one axis the one that arrived earlier
\* (for equal arrival times, the one with the lower id) is never admitted to
\* the corridor after the other
C5_AdmissionInArrivalOrder ==
  mechanism_type = "FCFS" =>
    \A v, w \in Ids :
      /\ vehicles[v].axis = vehicles[w].axis
      /\ \/ vehicles[v].arrival_time < vehicles[w].arrival_time
         \/ /\ vehicles[v].arrival_time = vehicles[w].arrival_time
            /\ v < w
      /\ vehicles[w].entry_time # None
      => /\ vehicles[v].entry_time # None
         /\ vehicles[v].entry_time <= vehicles[w].entry_time

\* C6: under FCFS, when two vehicles contest the free conflict cell the one
\* with the smaller entry_time wins, and for equal entry times the one with
\* the smaller id
C6_ConflictByEntryTimeThenId ==
  (/\ mechanism_type = "FCFS"
   /\ last_move.zone_before = None
   /\ Len(last_move.waiting) = 2) =>
    LET w == last_move.conflict_winner
        l == IF last_move.waiting[1] = w THEN last_move.waiting[2]
             ELSE last_move.waiting[1]
    IN  \/ vehicles[w].entry_time < vehicles[l].entry_time
        \/ /\ vehicles[w].entry_time = vehicles[l].entry_time
           /\ w < l

\* ---- the engine under every policy (Spec) -------------------------------
CorridorOn(axis) ==
  {vid \in Range(corridor_vehicles) : vehicles[vid].axis = axis}

\* C1: at most one vehicle is on the conflict cell and no two vehicles in
\* corridor_vehicles are on the same cell
C1_NoDoubleOccupancy ==
  /\ Cardinality({vid \in Ids : vehicles[vid].pos = INTERSECTION_POS}) <= 1
  /\ \A v, w \in Range(corridor_vehicles) :
       v # w => vehicles[v].pos # vehicles[w].pos

\* a contested tick has just been decided: one vehicle is on the conflict
\* cell and the other still stands on its approach cell
C1_Witness ==
  /\ Len(last_move.waiting) = 2
  /\ last_move.zone_before = None
  /\ \E v, w \in Range(corridor_vehicles) :
       /\ vehicles[v].pos = INTERSECTION_POS
       /\ vehicles[w].pos = WAITING_POSITIONS[vehicles[w].direction]

\* C2: each axis has at most one vehicle in corridor_vehicles, and its lock
\* is that vehicle's id, or None when the axis has no vehicle
C2_AxisLockIsTheTransitingVehicle ==
  \A axis \in {"NS", "EW"} :
    /\ Cardinality(CorridorOn(axis)) <= 1
    /\ \A vid \in CorridorOn(axis) : corridor_reserved[axis] = vid
    /\ CorridorOn(axis) = {} => corridor_reserved[axis] = None

\* a vehicle has left the grid and its axis has been given to another one
C2_Witness ==
  \E v \in Range(exited_vehicles), w \in Range(corridor_vehicles) :
    /\ vehicles[v].axis = vehicles[w].axis
    /\ corridor_reserved[vehicles[w].axis] = w
    /\ vehicles[w].entry_time > vehicles[v].exit_time

\* the vehicle of last_move.waiting that is not the selected winner
ConflictLoser ==
  IF last_move.waiting[1] = last_move.conflict_winner
  THEN last_move.waiting[2] ELSE last_move.waiting[1]

\* C3: when the lock is free at the start of the movement phase and two
\* vehicles are on their approach cells, the winner selected by the policy
\* is on the conflict cell and holds the lock after the tick, and the other
\* one is where it was and holds nothing
C3_ExactlyTheWinnerEnters ==
  (last_move.zone_before = None /\ Len(last_move.waiting) = 2) =>
    LET w == last_move.conflict_winner
        l == ConflictLoser
    IN  /\ w \in Range(last_move.waiting)
        /\ conflict_zone_vehicle = w
        /\ vehicles[w].pos = INTERSECTION_POS
        /\ vehicles[w].state = "IN_CONFLICT"
        /\ l # w
        /\ vehicles[l].pos = WAITING_POSITIONS[vehicles[l].direction]
        /\ vehicles[l].state = "IN_CORRIDOR"
        /\ conflict_zone_vehicle # l

\* a contest whose selected winner is the second vehicle of the waiting list
C3_Witness ==
  /\ last_move.zone_before = None
  /\ Len(last_move.waiting) = 2
  /\ last_move.conflict_winner = last_move.waiting[2]
  /\ conflict_zone_vehicle = last_move.waiting[2]

\* ---- mechanisms called on their own -------------------------------------
Called == call.op = "select" /\ call.done

CandidateSet == Range(call.candidates)

\* the order the claim gives: barrier_time if set, else arrival_time; then
\* arrival_time; then id
ClaimedFcfsKey(v) ==
  <<IF v.barrier_time # None THEN v.barrier_time ELSE v.arrival_time,
    v.arrival_time, v.id>>

\* C4: FCFS select returns the candidate that is smallest under
\* (barrier_time if set else arrival_time, arrival_time, id), whatever the
\* order of the list
C4_FcfsSelectsSmallestKey ==
  (Called /\ mechanism.kind = "FCFS") =>
    \A c \in CandidateSet \ {call.ret.winner} :
      LexLess(ClaimedFcfsKey(vehicles[call.ret.winner]),
              ClaimedFcfsKey(vehicles[c]))

BidOf(vid) == calculate_bid(vehicles[vid])

HighestBid ==
  CHOOSE b \in {BidOf(c) : c \in CandidateSet} :
    \A c \in CandidateSet : BidOf(c) <= b

\* the second element of the bids sorted in descending order
SecondHighestBid ==
  IF Cardinality({c \in CandidateSet : BidOf(c) = HighestBid}) >= 2
  THEN HighestBid
  ELSE CHOOSE b \in {BidOf(c) : c \in CandidateSet} :
         /\ b < HighestBid
         /\ \A c \in CandidateSet : BidOf(c) < HighestBid => BidOf(c) <= b

VickreyCalled == Called /\ mechanism.auction_type = "vickrey"
EnglishCalled == Called /\ mechanism.auction_type = "english"

\* C7: the Vickrey winner holds the highest bid, the price is the second
\* highest bid, and no permutation of the candidates changes the winning bid
\* or the price
C7_VickreySecondPrice ==
  VickreyCalled =>
    /\ BidOf(call.ret.winner) = HighestBid
    /\ call.ret.winning_bid = HighestBid
    /\ call.ret.price_paid = SecondHighestBid
    /\ \A p \in Perms(Len(call.candidates)) :
         LET other == run_vickrey_auction(
                        vehicles,
                        [i \in 1..Len(call.candidates) |-> call.candidates[p[i]]])
         IN  /\ other.winning_bid = call.ret.winning_bid
             /\ other.price_paid = call.ret.price_paid

\* a Vickrey auction over three different bids, the highest not listed first
C7_Witness ==
  /\ VickreyCalled
  /\ Len(call.candidates) = 3
  /\ Cardinality({BidOf(c) : c \in CandidateSet}) = 3
  /\ call.ret.winner # call.candidates[1]
  /\ call.ret.price_paid < call.ret.winning_bid

\* the candidates with the urgency argument of vehicle vid replaced by u
WithUrgency(vid, u) ==
  [vehicles EXCEPT ![vid] = NewVehicle(vid, @.direction, @.arrival_time, u,
                                       FALSE, @.mechanism, MIN_URGENCY,
                                       @.fuel_level)]

StrictlyHighest(vs, vid) ==
  \A c \in CandidateSet \ {vid} :
    calculate_bid(vs[c]) < calculate_bid(vs[vid])

\* C8: a second Vickrey run that differs only in the winner's bid, that bid
\* being strictly the highest in both runs, has the same winner and the same
\* price
C8_VickreyPriceIndependentOfOwnBid ==
  (VickreyCalled /\ StrictlyHighest(vehicles, call.ret.winner)) =>
    \A u \in CandidateUrgencies :
      StrictlyHighest(WithUrgency(call.ret.winner, u), call.ret.winner) =>
        LET second == run_vickrey_auction(WithUrgency(call.ret.winner, u),
                                          call.candidates)
        IN  /\ second.winner_id = call.ret.winner
            /\ second.price_paid = call.ret.price_paid

\* the winner's bid is strictly the highest and another bid of the winner
\* would also have been strictly the highest
C8_Witness ==
  /\ VickreyCalled
  /\ StrictlyHighest(vehicles, call.ret.winner)
  /\ \E u \in CandidateUrgencies :
       /\ StrictlyHighest(WithUrgency(call.ret.winner, u), call.ret.winner)
       /\ calculate_bid(WithUrgency(call.ret.winner, u)[call.ret.winner])
            # BidOf(call.ret.winner)
  /\ call.ret.price_paid > 0

\* C9: the price of an English auction is a multiple of 10 between the
\* second highest bid and the winning bid
C9_EnglishPriceBetweenSecondAndWinningBid ==
  EnglishCalled =>
    /\ call.ret.price_paid % increment = 0
    /\ SecondHighestBid <= call.ret.price_paid
    /\ call.ret.price_paid <= call.ret.winning_bid

\* C10: the winner of an English auction holds the highest original bid
C10_EnglishWinnerHoldsHighestBid ==
  EnglishCalled =>
    /\ BidOf(call.ret.winner) = HighestBid
    /\ call.ret.winning_bid = HighestBid

\* ---- the English auction round by round ----------------------------------
EnglishReturned == call.op = "english" /\ call.at = "done"

\* no pass of the loop is numbered above the cap, and the result returned is
\* the one of run_english_auction with at most RoundCap rounds
EnglishRoundsBounded ==
  call.op = "english" =>
    /\ call.round_num <= RoundCap
    /\ EnglishReturned =>
         /\ call.ret.some
         /\ call.ret.total_rounds <= RoundCap
         /\ call.ret.total_rounds = call.round_num
         /\ mechanism.last_auction =
              run_english_auction(vehicles, call.candidates)

\* C11: for every candidate list and every bid assignment the English
\* auction loop ends after at most 100 rounds and select returns a result
\* with total_rounds <= 100
C11_EnglishAuctionEnds == []EnglishRoundsBounded /\ <>EnglishReturned

\* the auction was stopped by the cap with two bidders still active
C11_Witness ==
  /\ EnglishReturned
  /\ call.round_num = RoundCap
  /\ Len(call.active_bidders) > 1

\* ---- urgent vehicles in an auction ---------------------------------------
UrgentCandidates == {c \in CandidateSet : is_urgent(vehicles[c])}

\* C12: in a Vickrey or an English auction over a list that holds at least
\* one urgent vehicle, in any order, the winner is an urgent vehicle
C12_AuctionWinnerIsUrgent ==
  (Called /\ mechanism.kind = "AUCTION" /\ UrgentCandidates # {}) =>
    call.ret.winner \in UrgentCandidates

\* an English auction over urgent and non-urgent vehicles, a non-urgent one
\* listed first
C12_Witness ==
  /\ EnglishCalled
  /\ UrgentCandidates # {}
  /\ call.candidates[1] \notin UrgentCandidates
  /\ call.ret.winner \in UrgentCandidates

\* ---- parking to barrier under Auction and Negotiation (SpecPark) ---------
Parked(direction) == Range(parking_zones[direction])

MovedToBarrierNow(vid) ==
  step_count > 0 /\ vehicles[vid].barrier_time = step_count

\* C13: under Auction and Negotiation a non-urgent vehicle is never moved to
\* the barrier in a tick in which an urgent vehicle is parked in the same
\* direction
C13_UrgentLeavesParkingFirst ==
  mechanism_type \in {"AUCTION", "NEGOTIATION"} =>
    \A vid \in Ids :
      (MovedToBarrierNow(vid) /\ ~is_urgent(vehicles[vid])) =>
        \A w \in Parked(vehicles[vid].direction) : ~is_urgent(vehicles[w])

\* an urgent vehicle has just been moved to the barrier ahead of a
\* non-urgent one that arrived before it and is still parked
C13_Witness ==
  \E vid \in Ids :
    /\ MovedToBarrierNow(vid)
    /\ is_urgent(vehicles[vid])
    /\ \E w \in Parked(vehicles[vid].direction) :
         /\ ~is_urgent(vehicles[w])
         /\ vehicles[w].arrival_time < vehicles[vid].arrival_time

\* ---- urgency under FCFS --------------------------------------------------
NoUrgency(v) ==
  /\ v.urgency = 0
  /\ calculate_bid(v) = 0
  /\ v.bid_amount = 0
  /\ ~is_urgent(v)

\* C14: under FCFS every vehicle has urgency 0, bid 0 and is not urgent,
\* whatever urgency or forced-urgent flag it is created with, and the
\* engine's urgent_crossed counter stays 0
C14_FcfsHasNoUrgency ==
  mechanism_type = "FCFS" =>
    /\ \A vid \in Ids : NoUrgency(vehicles[vid])
    /\ stats.urgent_crossed = 0
    /\ \A urgency \in {None} \cup (0..(MAX_URGENCY + 1)), forced \in BOOLEAN,
          rnd \in MIN_URGENCY..MAX_URGENCY :
         NoUrgency(NewVehicle(1, "N", step_count, urgency, forced, "FCFS",
                              rnd, 60))

\* an FCFS vehicle has crossed and left the grid
C14_Witness ==
  /\ mechanism_type = "FCFS"
  /\ stats.total_crossed >= 1
  /\ \E vid \in Range(exited_vehicles) : vehicles[vid].exit_time # None

\* the negotiation mechanism has returned from the pending call of method
NegotiationCalled(method) ==
  /\ call.op = "negotiation"
  /\ call.done
  /\ call.method = method

\* the two parties of the negotiation the mechanism recorded
Negotiators ==
  {mechanism.last_negotiation.winner_id, mechanism.last_negotiation.loser_id}

\* no candidate outside ids was created with a higher bid than a member of ids
HighestBidders(ids) ==
  \A i \in ids : \A j \in CandidateSet \ ids :
    calculate_bid(vehicles[j]) <= calculate_bid(vehicles[i])

\* C15: select over two or more candidates negotiates between two candidates
\* with the highest bids and returns one of them; select_at_conflict
\* negotiates between the first two waiting vehicles and returns one of them.
C15_NegotiationBetweenTopTwo ==
  /\ NegotiationCalled("select") =>
       /\ Cardinality(Negotiators) = 2
       /\ Negotiators \subseteq CandidateSet
       /\ HighestBidders(Negotiators)
       /\ call.ret.winner \in Negotiators
  /\ NegotiationCalled("select_at_conflict") =>
       /\ Negotiators = {call.candidates[1], call.candidates[2]}
       /\ call.ret.winner \in Negotiators

\* select has negotiated among three candidates of which the first listed has
\* the lowest bid
C15_Witness ==
  /\ NegotiationCalled("select")
  /\ Len(call.candidates) = 3
  /\ call.candidates[1] \notin Negotiators
  /\ calculate_bid(vehicles[call.candidates[1]])
       < calculate_bid(vehicles[call.candidates[2]])

\* the negotiation mechanism has returned from a negotiation
Negotiated ==
  NegotiationCalled("select") \/ NegotiationCalled("select_at_conflict")

\* the initial scores the two parties proposed, in tenths
ProposedScore(i) == mechanism.last_negotiation.propose[i].priority_score

\* |score1 - score2| < 0.1 * max(score1, score2) on scores in tenths
WithinTenPercent(score1, score2) ==
  10 * Abs(score1 - score2) < Max2(score1, score2)

ProposedBy(vid) ==
  LET i == CHOOSE k \in 1..2 :
             mechanism.last_negotiation.propose[k].sender_id = vid
  IN  ProposedScore(i)

\* the final score of party vid as the claim gives it, in tenths: the initial
\* score, plus 0.3 x (current_step - arrival_time) when the COUNTER round ran
ClaimedFinalScore(vid) ==
  IF mechanism.last_negotiation.total_rounds = 4
  THEN ProposedBy(vid) + 3 * (call.current_step - vehicles[vid].arrival_time)
  ELSE ProposedBy(vid)

\* C17: in every negotiation the winner has the strictly higher final score
\* (initial score, plus 0.3 x wait when the COUNTER round ran); the loser's
\* last message is YIELD, the winner's is ACCEPT and one yield is counted.
C17_WinnerHasStrictlyHigherFinalScore ==
  Negotiated =>
    LET r == mechanism.last_negotiation
    IN  /\ r.winner_score = ClaimedFinalScore(r.winner_id)
        /\ r.loser_score = ClaimedFinalScore(r.loser_id)
        /\ ClaimedFinalScore(r.winner_id) > ClaimedFinalScore(r.loser_id)
        /\ r.yield_sender = r.loser_id
        /\ r.accept_sender = r.winner_id
        /\ mechanism.stats.yields = 1

\* the games recorded in the Chicken Game mechanism's history
Games ==
  IF call.op = "chicken" THEN Range(mechanism.history) ELSE {}

\* both players of game o chose GO (is_collision is computed from the two
\* chosen actions, before any override)
BothChoseGo(o) == o.is_collision

\* the urgencies of the two players of game o
GameUrgencies(o) ==
  {vehicles[o.player_a_id].urgency, vehicles[o.player_b_id].urgency}

\* the player of game o whose recorded action is YIELD, given there is one
Yielder(o) ==
  IF o.action_a = "YIELD" THEN o.player_a_id ELSE o.player_b_id

\* C18: a game in which both players chose GO is recorded with exactly one
\* GO and one YIELD action and a winner among the two players; the
\* 'collisions' statistic stays 0; and two such games between the same two
\* unequal urgencies force a player of the same urgency to yield.
C18_BothGoIsNeverACollision ==
  call.op = "chicken" =>
    /\ mechanism.stats.collisions = 0
    /\ \A o \in Games :
         BothChoseGo(o) =>
           /\ {o.action_a, o.action_b} = {"GO", "YIELD"}
           /\ o.winner_id \in {o.player_a_id, o.player_b_id}
           /\ o.winner_id # Yielder(o)
    /\ \A o1, o2 \in Games :
         /\ BothChoseGo(o1)
         /\ BothChoseGo(o2)
         /\ GameUrgencies(o1) = GameUrgencies(o2)
         /\ Cardinality(GameUrgencies(o1)) = 2
         => vehicles[Yielder(o1)].urgency = vehicles[Yielder(o2)].urgency

\* two recorded games in which both chose GO, between the same players of
\* unequal urgencies listed in opposite orders
C18_Witness ==
  /\ call.op = "chicken"
  /\ \E o1, o2 \in Games :
       /\ BothChoseGo(o1)
       /\ BothChoseGo(o2)
       /\ o1.player_a_id = o2.player_b_id
       /\ o1.player_b_id = o2.player_a_id
       /\ Cardinality(GameUrgencies(o1)) = 2
       /\ mechanism.stats.near_misses = 2

\* game o was played between players of unequal urgencies who both chose GO
BothGoUnequal(o) ==
  BothChoseGo(o) /\ Cardinality(GameUrgencies(o)) = 2

\* the player of game o whose recorded action is GO
Goer(o) ==
  IF o.action_a = "GO" THEN o.player_a_id ELSE o.player_b_id

\* C19 as stated: when both players choose GO with unequal urgencies, the
\* player forced to YIELD is the one with the higher urgency.
C19_HigherUrgencyYields ==
  \A o \in Games :
    BothGoUnequal(o) =>
      vehicles[Yielder(o)].urgency > vehicles[Goer(o)].urgency

\* C19 as amended: when both players choose GO with unequal urgencies, the
\* player forced to YIELD is the one with the lower urgency, and the one
\* with the higher urgency wins.
C19_LowerUrgencyYields ==
  \A o \in Games :
    BothGoUnequal(o) =>
      /\ vehicles[Yielder(o)].urgency < vehicles[Goer(o)].urgency
      /\ o.winner_id = Goer(o)

\* both chose GO and the first player, of the lower urgency, was overridden
C19_Witness ==
  \E o \in Games :
    /\ BothGoUnequal(o)
    /\ o.action_a = "YIELD"
    /\ vehicles[o.player_a_id].urgency < vehicles[o.player_b_id].urgency

\* the actions the two players of game o chose, before any override
ChosenActions(o) ==
  IF o.is_collision THEN <<"GO", "GO">> ELSE <<o.action_a, o.action_b>>

\* both players of game o are Vehicle objects
BetweenVehicles(o) ==
  /\ HasDecision(vehicles[o.player_a_id])
  /\ HasDecision(vehicles[o.player_b_id])

\* C20: each player's action is chosen by the mechanism's configured
\* strategy: between any two vehicles, both choose GO under the Aggressive
\* strategy and both choose YIELD under the Cooperative strategy.
C20_StrategyChoosesTheAction ==
  \A o \in Games :
    BetweenVehicles(o) =>
      /\ mechanism.default_strategy = "AGGRESSIVE" =>
           ChosenActions(o) = <<"GO", "GO">>
      /\ mechanism.default_strategy = "COOPERATIVE" =>
           ChosenActions(o) = <<"YIELD", "YIELD">>

\* the Chicken Game mechanism has returned from a select over candidates
ChickenCalled ==
  /\ call.op = "chicken"
  /\ call.games > 0

\* the urgency of the i-th candidate of the last select
CandidateUrgency(i) == vehicles[call.candidates[i]].urgency

NewIds ==
  IF step_count' = step_count + 1
  THEN (vehicle_counter + 1) .. vehicle_counter'
  ELSE {}

\* the step being taken is a reset() that leaves tick 0 and no vehicle
ResetTaken ==
  /\ step_count' = 0
  /\ vehicle_counter' = 0
  /\ vehicles' = << >>

\* before the step, direction has an empty barrier queue and its axis lock
\* is free
OpenRoad(direction) ==
  /\ barrier_queues[direction] = << >>
  /\ corridor_reserved[DIRECTION_AXIS[direction]] = None

\* after the step, vehicle vid is in the corridor one cell past its entry
\* point, with all three timestamps equal to the new tick
EnteredThisTick(vid) ==
  LET v == vehicles'[vid]
  IN  /\ v.state = "IN_CORRIDOR"
      /\ v.pos = <<ENTRY_POINTS[v.direction][1]
                     + MOVE_DIRECTION[v.direction][1],
                   ENTRY_POINTS[v.direction][2]
                     + MOVE_DIRECTION[v.direction][2]>>
      /\ v.arrival_time = step_count'
      /\ v.barrier_time = step_count'
      /\ v.entry_time = step_count'

\* C22 as stated: every step() adds one to the tick, and a vehicle it spawns
\* into a direction with an empty barrier queue and a free axis lock ends
\* the tick in the corridor, one cell past its entry point, with
\* arrival_time = barrier_time = entry_time = the tick.
C22_SpawnedEntersSameTick ==
  [][/\ step_count' = step_count + 1 \/ ResetTaken
     /\ \A vid \in NewIds :
          OpenRoad(vehicles'[vid].direction) => EnteredThisTick(vid)]_vars

\* the other direction of the axis of direction
Opposite(direction) ==
  CASE direction = "N" -> "S" [] direction = "S" -> "N"
    [] direction = "E" -> "W" [] direction = "W" -> "E"

\* before the step the opposite direction has no vehicle at its barrier,
\* and the step spawns none into it
Uncontested(direction) ==
  /\ barrier_queues[Opposite(direction)] = << >>
  /\ \A vid \in NewIds : vehicles'[vid].direction # Opposite(direction)

\* C22 as amended: every step() adds one to the tick, and a vehicle it spawns
\* into a direction with an empty barrier queue and a free axis lock, while
\* the opposite direction has an empty barrier queue and gets no vehicle
\* that tick, ends the tick in the corridor, one cell past its entry point,
\* with arrival_time = barrier_time = entry_time = the tick.
C22_UncontestedSpawnedEntersSameTick ==
  [][/\ step_count' = step_count + 1 \/ ResetTaken
     /\ \A vid \in NewIds :
          OpenRoad(vehicles'[vid].direction)
            /\ Uncontested(vehicles'[vid].direction)
          => EnteredThisTick(vid)]_vars

\* a vehicle spawned in the current tick is already past its entry point
C22_Witness ==
  \E vid \in Ids :
    /\ vehicles[vid].state = "IN_CORRIDOR"
    /\ vehicles[vid].arrival_time = step_count
    /\ vehicles[vid].entry_time = step_count
    /\ vehicles[vid].pos # ENTRY_POINTS[vehicles[vid].direction]

\* the engine at the start of the next step(), with the tick advanced
NextTick == [Engine EXCEPT !.step_count = @ + 1, !.last_move = NoMove]

\* the draws of a vehicle spawned by the next step()
NextAttrs == [d \in DirSet |-> CHOOSE a \in AttrChoices(mechanism_type) : TRUE]

\* the spawn phase of the next step() when the draws of directions succeed
Spawned(directions) == try_spawn_vehicles(NextTick, 1, directions, NextAttrs)

\* a spawn draw for direction, whatever other directions draw, leaves the
\* engine as it is without that draw
SpawnSuppressed(direction) ==
  \A others \in SUBSET (DirSet \ {direction}) :
    Spawned(others \cup {direction}) = Spawned(others)

\* after the spawn phase e, the admission attempt of the parking-to-barrier
\* phase leaves the pool and the queue of direction as they are
AdmissionSuppressed(e, direction) ==
  /\ AdmitToBarrier(e, direction) = e
  /\ move_parking_to_barrier(e, 1).parking_zones[direction]
       = e.parking_zones[direction]
  /\ move_parking_to_barrier(e, 1).barrier_queues[direction]
       = e.barrier_queues[direction]

\* C23: every parking pool holds at most 9 vehicles and every barrier queue
\* at most 3; a spawn draw for a full parking pool and an admission attempt
\* for a full barrier queue change nothing.
C23_PoolsAndQueuesAreCapped ==
  \A d \in DirSet :
    /\ Len(parking_zones[d]) <= 9
    /\ Len(barrier_queues[d]) <= 3
    /\ Len(parking_zones[d]) = 9 => SpawnSuppressed(d)
    /\ Len(barrier_queues[d]) = 3 =>
         /\ AdmissionSuppressed(Spawned({}), d)
         /\ AdmissionSuppressed(Spawned({d}), d)

\* a step() has been run on a full parking pool behind a full barrier queue
C23_Witness ==
  /\ Len(parking_zones["N"]) = 9
  /\ Len(barrier_queues["N"]) = 3
  /\ \A i \in 1..9 : vehicles[parking_zones["N"][i]].arrival_time < step_count

\* C24: the timestamps of every vehicle that are set satisfy
\* arrival_time <= barrier_time <= entry_time <= exit_time, and none is set
\* while an earlier one is unset.
C24_TimestampsAreOrdered ==
  \A vid \in Ids :
    LET v == vehicles[vid]
    IN  /\ v.arrival_time # None
        /\ v.barrier_time # None => v.arrival_time <= v.barrier_time
        /\ v.entry_time # None =>
             v.barrier_time # None /\ v.barrier_time <= v.entry_time
        /\ v.exit_time # None =>
             v.entry_time # None /\ v.entry_time <= v.exit_time

\* one vehicle has left the grid and another has entered the corridor after
\* waiting at its barrier
C24_Witness ==
  \E vid, other \in Ids :
    /\ vehicles[vid].exit_time # None
    /\ vehicles[vid].entry_time < vehicles[vid].exit_time
    /\ vehicles[other].entry_time # None
    /\ vehicles[other].barrier_time < vehicles[other].entry_time

\* the position of a vehicle in the order IN_PARKING, AT_BARRIER, IN_CORRIDOR
\* (before the conflict cell), IN_CONFLICT, IN_CORRIDOR (after it), EXITED
BeyondConflict(v) ==
  /\ v.pos # NoPos
  /\ \/ v.direction = "N" /\ v.pos[2] > INTERSECTION_POS[2]
     \/ v.direction = "S" /\ v.pos[2] < INTERSECTION_POS[2]
     \/ v.direction = "E" /\ v.pos[1] < INTERSECTION_POS[1]
     \/ v.direction = "W" /\ v.pos[1] > INTERSECTION_POS[1]

Stage(v) ==
  CASE v.state = "IN_PARKING" -> 0
    [] v.state = "AT_BARRIER" -> 1
    [] v.state = "IN_CORRIDOR" -> IF BeyondConflict(v) THEN 4 ELSE 2
    [] v.state = "IN_CONFLICT" -> 3
    [] v.state = "EXITED" -> 5

\* C25: a vehicle only moves forward in the order IN_PARKING, AT_BARRIER,
\* IN_CORRIDOR, IN_CONFLICT, IN_CORRIDOR, EXITED; it is past the conflict cell
\* only after a tick that it started in the conflict cell or past it; and a
\* vehicle past the conflict cell neither holds the conflict lock nor
\* occupies the conflict cell
C25_StatesInOrder ==
  [][ResetTaken \/
     /\ \A vid \in Ids \cap DOMAIN vehicles' :
          /\ Stage(vehicles'[vid]) >= Stage(vehicles[vid])
          /\ Stage(vehicles'[vid]) >= 4 => Stage(vehicles[vid]) >= 3
     /\ \A vid \in DOMAIN vehicles' :
          /\ vid \notin Ids => Stage(vehicles'[vid]) <= 2
          /\ (vehicles'[vid].pos = INTERSECTION_POS) = (Stage(vehicles'[vid]) = 3)
          /\ conflict_zone_vehicle' = vid => Stage(vehicles'[vid]) = 3
          /\ Stage(vehicles'[vid]) = 3 => conflict_zone_vehicle' = vid]_vars

\* one vehicle has left the grid and another is in its corridor past the
\* conflict cell
C25_Witness ==
  \E vid, other \in Ids :
    /\ vehicles[vid].state = "EXITED"
    /\ Stage(vehicles[other]) = 4


\* the sum of entry_time - arrival_time over the vehicles of exited_vehicles
\* from index i on
RECURSIVE ExitedWait(_)
ExitedWait(i) ==
  IF i > Len(exited_vehicles) THEN 0
  ELSE vehicles[exited_vehicles[i]].entry_time
         - vehicles[exited_vehicles[i]].arrival_time + ExitedWait(i + 1)

\* C26: get_stats() reports total_crossed = len(exited_vehicles) and, when
\* total_crossed > 0, avg_wait_time = the sum of entry_time - arrival_time
\* over the exited vehicles divided by total_crossed
C26_AverageWaitIsOverExited ==
  LET s == get_stats(Engine)
  IN  /\ s.total_crossed = Len(exited_vehicles)
      /\ s.total_crossed > 0 =>
            s.avg_wait_time.num * s.total_crossed
              = ExitedWait(1) * s.avg_wait_time.den


\* the engine e has tick 0, no vehicle anywhere, free locks and zero
\* statistics, its own and its mechanism's
Cleared(e) ==
  /\ e.step_count = 0
  /\ \A d \in DirSet : e.parking_zones[d] = << >> /\ e.barrier_queues[d] = << >>
  /\ e.corridor_vehicles = << >>
  /\ e.exited_vehicles = << >>
  /\ e.vehicles = << >>
  /\ \A a \in {"NS", "EW"} : e.corridor_reserved[a] = None
  /\ e.conflict_zone_vehicle = None
  /\ \A k \in DOMAIN e.stats : e.stats[k] = 0
  /\ \A k \in DOMAIN e.mechanism.stats : e.mechanism.stats[k] = 0

\* step() adds one to the tick, so the steps that do not are the calls of
\* reset()
ResetCalled == step_count' # step_count + 1

\* C27: every reset() leaves the engine with tick 0, empty pools, queues,
\* corridor tracking and exited record, free locks and zero engine and policy
\* statistics, and a second reset() would leave that state unchanged
C27_ResetClearsAndIsIdempotent ==
  [][ResetCalled => (Cleared(Engine') /\ reset(Engine') = Engine')]_vars

\* reset() can be called with a vehicle exited, another holding an axis lock,
\* and engine and policy statistics that are not zero
C27_Witness ==
  /\ exited_vehicles # << >>
  /\ \E a \in {"NS", "EW"} : corridor_reserved[a] # None
  /\ stats.total_wait_time > 0
  /\ mechanism.stats.selections > 0
  /\ call = NoCall


\* C28: over the life of an engine, across step() and reset(), every spawned
\* vehicle receives an id strictly greater than every id assigned before
C28_IdsStrictlyIncrease ==
  call.op = "ids" =>
    \A i, j \in 1..Len(call.assigned) :
      i < j => call.assigned[i] < call.assigned[j]


\* C29: two engines built with the same policy, parameters and seed pass
\* through the same states step by step, also when the other engine is built
\* or stepped in between
C29_SameSeedSameTrajectory ==
  call.op = "seeded" =>
    \A i \in 1..SeedSteps :
      (i <= Len(call.trace["a"]) /\ i <= Len(call.trace["b"]))
        => call.trace["a"][i] = call.trace["b"][i]


\* the counters of a get_stats() result
StatCounters(s) ==
  {s.step, s.total_spawned, s.total_crossed, s.urgent_crossed,
   s.parking_count, s.barrier_count, s.corridor_count,
   s.waiting_at_intersection, s.collisions_avoided}
    \cup {s[k] : k \in DOMAIN mechanism.stats}

\* C30: in every state get_stats() divides by a non-zero total_crossed or
\* not at all and get_all_vehicles_positions() has one entry for each vehicle
\* parked, queued or in a corridor; in a freshly built or just-reset engine
\* every counter and avg_wait_time are 0, both corridors and the conflict
\* zone are FREE and the snapshot list is empty
C30_QueriesAreDefined ==
  LET s == get_stats(Engine)
      p == get_all_vehicles_positions(Engine)
  IN  /\ s.avg_wait_time.den # 0
      /\ Len(p) = s.parking_count + s.barrier_count + s.corridor_count
      /\ \A i \in 1..Len(p) : p[i].id \in Ids /\ p[i].pos # NoPos
      /\ Cleared(Engine) =>
            /\ StatCounters(s) = {0}
            /\ s.avg_wait_time.num = 0
            /\ s.ns_corridor = "FREE" /\ s.ew_corridor = "FREE"
            /\ s.conflict_zone = "FREE"
            /\ p = << >>

\* the queries are made with the conflict zone occupied, a corridor reserved
\* and a vehicle waiting at a barrier
C30_Witness ==
  /\ get_stats(Engine).ns_corridor = "RESERVED"
  /\ get_stats(Engine).conflict_zone = "OCCUPIED"
  /\ \E i \in 1..Len(get_all_vehicles_positions(Engine)) :
       get_all_vehicles_positions(Engine)[i].state = "barrier"


\* step() adds one to the tick and reset() leaves a cleared engine, so every
\* other step is a query
QueryCalled == step_count' = step_count /\ ~Cleared(Engine')

\* C31: a query changes no field of any vehicle, queue, lock or statistic of
\* the engine or of its policy
C31_QueriesChangeNothing ==
  [][QueryCalled =>
       UNCHANGED <<mechanism_type, mechanism, step_count, vehicle_counter,
                   vehicles, parking_zones, barrier_queues, corridor_reserved,
                   corridor_vehicles, conflict_zone_vehicle, exited_vehicles,
                   stats>>]_vars


\* C32: when the policy returned a vehicle that was not a candidate, at the
\* barrier or at the conflict cell, step() raised, and an axis lock is never
\* held by a vehicle of the other axis
C32_ForeignWinnerIsFatal ==
  call.op = "stub" =>
    /\ call.faults # {} => call.raised
    /\ \A axis \in {"NS", "EW"} :
         corridor_reserved[axis] # None =>
           vehicles[corridor_reserved[axis]].axis = axis


\* the policies the program has
BuiltInMechanisms ==
  {FCFSMechanism, AuctionMechanism("vickrey"), AuctionMechanism("english"),
   NegotiationMechanism}

\* select and select_at_conflict of every policy, given no candidate, return
\* None and leave the policy and the vehicles as they were
EmptySelectionIsNoOp ==
  /\ \A m \in BuiltInMechanisms :
       /\ select(m, vehicles, << >>, step_count, 0, 0)
            = [result |-> NoResult, mechanism |-> m, vehicles |-> vehicles]
       /\ select_at_conflict(m, vehicles, << >>, step_count, 0, 0)
            = [result |-> NoResult, mechanism |-> m, vehicles |-> vehicles]
  /\ \A strategy \in ChickenStrategies :
       ChickenSelect(ChickenGameMechanism(strategy), vehicles, << >>, 0, 0)
         = [result |-> NoResult,
            mechanism |-> ChickenGameMechanism(strategy)]

\* the selection at the point where, which had candidates and a free lock,
\* admitted no vehicle
NothingAdmitted(where) ==
  IF where = "conflict"
  THEN conflict_zone_vehicle = None
  ELSE /\ corridor_reserved[where] = None
       /\ BarrierCandidates(Engine, where) # << >>

\* C33: given no candidate every policy returns no outcome and changes no
\* statistic; where a selection of the engine yielded no outcome or no
\* winner, step() did not raise and admitted no vehicle in that phase:
\* the barrier queues and the lock are as they were
C33_NoWinnerAdmitsNothing ==
  call.op = "stub" =>
    /\ EmptySelectionIsNoOp
    /\ call.faults = {} =>
         \A where \in call.quiet : ~call.raised /\ NothingAdmitted(where)


\* vehicle vid is tracked in its corridor, on the conflict cell and in state
\* IN_CONFLICT
OnConflictCell(vid) ==
  /\ vid \in Range(corridor_vehicles)
  /\ vehicles[vid].pos = INTERSECTION_POS
  /\ vehicles[vid].state = "IN_CONFLICT"

\* C34: at the end of every step() the conflict lock names vehicle v exactly
\* when v is in corridor_vehicles, on cell (7,7) and IN_CONFLICT, and is None
\* when no vehicle is on the cell; a vehicle that holds the lock at the end
\* of one tick does not hold it at the end of the next
C34_ConflictLockFollowsTheCell ==
  /\ [](/\ conflict_zone_vehicle \in Ids \cup {None}
        /\ \A vid \in Ids : (conflict_zone_vehicle = vid) = OnConflictCell(vid)
        /\ (\A vid \in Ids : vehicles[vid].pos # INTERSECTION_POS)
             => conflict_zone_vehicle = None)
  /\ [][conflict_zone_vehicle # None
          => conflict_zone_vehicle' # conflict_zone_vehicle]_vars

\* a vehicle holds the conflict lock while another waits at its approach cell
C34_Witness ==
  /\ conflict_zone_vehicle # None
  /\ OnConflictCell(conflict_zone_vehicle)
  /\ \E other \in Ids :
       /\ other # conflict_zone_vehicle
       /\ vehicles[other].pos = WAITING_POSITIONS[vehicles[other].direction]


\* vehicle vid leaves the grid in the step being taken
Exits(vid) ==
  /\ vid \in Ids
  /\ vid \in DOMAIN vehicles'
  /\ vehicles[vid].state # "EXITED"
  /\ vehicles'[vid].state = "EXITED"

OtherAxis(axis) == IF axis = "NS" THEN "EW" ELSE "NS"

\* the number of times vid occurs in seq
Occurrences(seq, vid) == Cardinality({i \in 1..Len(seq) : seq[i] = vid})

\* the lock of axis after the admission phase of the step being taken
LockAfterAdmission(axis) ==
  IF last_move'.admitted[axis] # None THEN last_move'.admitted[axis]
  ELSE corridor_reserved[axis]

\* C35: a vehicle whose move takes it off the grid is, at the end of that
\* tick, EXITED with exit_time the tick, its axis lock is free, the lock of
\* the other axis is what the admission phase left unless a vehicle of that
\* axis exits too, it is once in exited_vehicles and not in
\* corridor_vehicles, and total_crossed grew by one for each exiting vehicle
C35_ExitReleasesOwnAxisOnly ==
  [][/\ \A vid \in Ids :
          Exits(vid) =>
            /\ vehicles'[vid].exit_time = step_count'
            /\ vehicles'[vid].pos = NoPos
            /\ corridor_reserved'[vehicles[vid].axis] = None
            /\ (\A other \in Ids :
                   Exits(other) => vehicles[other].axis = vehicles[vid].axis)
                 => corridor_reserved'[OtherAxis(vehicles[vid].axis)]
                      = LockAfterAdmission(OtherAxis(vehicles[vid].axis))
            /\ Occurrences(exited_vehicles', vid) = 1
            /\ Occurrences(exited_vehicles, vid) = 0
            /\ vid \in Range(corridor_vehicles)
            /\ vid \notin Range(corridor_vehicles')
     /\ (\E vid \in Ids : Exits(vid))
          => stats'.total_crossed
               = stats.total_crossed + Cardinality({vid \in Ids : Exits(vid)})]_vars

\* a vehicle has left the grid in the last tick while the other axis lock is
\* held
C35_Witness ==
  \E vid \in Ids :
    /\ vehicles[vid].state = "EXITED"
    /\ vehicles[vid].exit_time = step_count
    /\ corridor_reserved[vehicles[vid].axis] = None
    /\ corridor_reserved[OtherAxis(vehicles[vid].axis)] # None


\* the ids held in the queues of zones, one after the other
RECURSIVE Flatten(_, _)
Flatten(zones, i) ==
  IF i > Len(Directions) THEN << >>
  ELSE zones[Directions[i]] \o Flatten(zones, i + 1)

\* the four places of a vehicle: parking, barrier queue, corridor, crossed
AllParked == Flatten(parking_zones, 1)
AllQueued == Flatten(barrier_queues, 1)

Places(vid) ==
  Occurrences(AllParked, vid) + Occurrences(AllQueued, vid)
    + Occurrences(corridor_vehicles, vid) + Occurrences(exited_vehicles, vid)

\* C36: vehicles are conserved: total_spawned is the number of parked
\* vehicles plus those in barrier queues plus those in corridor_vehicles plus
\* total_crossed, and every vehicle is in exactly one of the four places
C36_VehiclesAreConserved ==
  /\ stats.total_spawned
       = Len(AllParked) + Len(AllQueued) + Len(corridor_vehicles) + stats.total_crossed
  /\ stats.total_crossed = Len(exited_vehicles)
  /\ stats.total_spawned = Cardinality(Ids)
  /\ \A vid \in Ids : Places(vid) = 1
  /\ Range(AllParked) \cup Range(AllQueued) \cup Range(corridor_vehicles)
       \cup Range(exited_vehicles) = Ids

\* all four places are occupied
C36_Witness ==
  /\ Len(AllParked) > 0
  /\ Len(AllQueued) > 0
  /\ Len(corridor_vehicles) > 0
  /\ stats.total_crossed > 0


\* the number of cells between a corridor vehicle and its entry point
Progress(v) ==
  Abs(v.pos[1] - ENTRY_POINTS[v.direction][1])
    + Abs(v.pos[2] - ENTRY_POINTS[v.direction][2])

\* the number of ticks vehicle vid has not advanced since it was admitted
Lag(vid) ==
  IF vehicles[vid].state = "EXITED"
  THEN vehicles[vid].exit_time - vehicles[vid].entry_time - 10
  ELSE step_count - vehicles[vid].entry_time + 1 - Progress(vehicles[vid])

Admitted == Range(corridor_vehicles) \cup Range(exited_vehicles)

\* C37: under the built-in policies a vehicle admitted at tick t has lost at
\* most 2 ticks at any later tick boundary and has left the grid by t+12; it
\* loses a tick only while it stands on its approach cell, so it leaves at
\* exactly t+10 when it is never blocked
C37_CrossingTakesTenToTwelveTicks ==
  /\ [](\A vid \in Admitted :
          /\ vehicles[vid].entry_time # None
          /\ Lag(vid) \in 0..2
          /\ vehicles[vid].state = "EXITED"
               => vehicles[vid].exit_time \in
                    (vehicles[vid].entry_time + 10)..(vehicles[vid].entry_time + 12))
  /\ [][\A vid \in Admitted :
          (vid \in DOMAIN vehicles' /\ vehicles'[vid].entry_time = vehicles[vid].entry_time
             /\ step_count' = step_count + 1 /\ Lag(vid)' # Lag(vid))
            => /\ Lag(vid)' = Lag(vid) + 1
               /\ vehicles[vid].pos = WAITING_POSITIONS[vehicles[vid].direction]
               /\ vehicles'[vid].pos = vehicles[vid].pos]_vars

\* one vehicle has left the grid ten ticks after its admission while another,
\* blocked for two ticks, is past the conflict cell
C37_Witness ==
  /\ \E vid \in Range(exited_vehicles) : Lag(vid) = 0
  /\ \E vid \in Range(corridor_vehicles) :
       /\ Lag(vid) = 2
       /\ BeyondConflict(vehicles[vid])


SpawnedBefore(a, b) ==
  /\ vehicles[a].direction = vehicles[b].direction
  /\ vehicles[a].arrival_time < vehicles[b].arrival_time

\* C39: under FCFS the vehicles of one direction reach the barrier and enter
\* the corridor in the order in which they were spawned, and the queues of a
\* direction hold them in that order
C39_FcfsIsFifoPerDirection ==
  /\ \A a, b \in Ids :
       SpawnedBefore(a, b) =>
         /\ a < b
         /\ vehicles[b].barrier_time # None
              => /\ vehicles[a].barrier_time # None
                 /\ vehicles[a].barrier_time < vehicles[b].barrier_time
         /\ vehicles[b].entry_time # None
              => /\ vehicles[a].entry_time # None
                 /\ vehicles[a].entry_time < vehicles[b].entry_time
  /\ \A d \in DirSet :
       LET line == barrier_queues[d] \o parking_zones[d]
       IN  \A i, j \in 1..Len(line) :
             i < j => SpawnedBefore(line[i], line[j])

\* two vehicles of one direction have entered the corridor, a vehicle of the
\* opposite direction between them, while a fourth still waits at the barrier
C39_Witness ==
  \E a, b, c, d \in Ids :
    /\ SpawnedBefore(a, b)
    /\ vehicles[b].entry_time # None
    /\ vehicles[c].direction # vehicles[a].direction
    /\ vehicles[c].entry_time # None
    /\ vehicles[a].entry_time < vehicles[c].entry_time
    /\ vehicles[c].entry_time < vehicles[b].entry_time
    /\ vehicles[d].state = "AT_BARRIER"

====
